---- MODULE Spec2Model ----
(***************************************************************************)
(* Migration-from orchestration on the source hub                          *)
(* (agent/pkg/spec/syncers/migration_from_syncer.go).                      *)
(*                                                                         *)
(* Sync decodes a migration event, upserts the bootstrap secret and its    *)
(* backup, creates the klusterlet config when it is missing, annotates     *)
(* every managed cluster of the event and then polls until every cluster   *)
(* has been detached.  Every call on the client is one atomic step of the  *)
(* run that issues it, so that two deliveries of the event and the agent   *)
(* that owns the Availability condition interleave between the calls.      *)
(***************************************************************************)
EXTENDS Integers, Sequences, FiniteSets, TLC

VARIABLES
    payload,     \* the bytes handed to Sync (the same event for every delivery)
    secrets,     \* store: corev1.Secret objects by <<namespace, name>>
    configs,     \* store: KlusterletConfig objects by name
    clusters,    \* store: ManagedCluster objects by name
    run,         \* per delivery: position and locals of its Sync call
    log,         \* history: the client calls issued so far
    faultsLeft,  \* store failures the environment may still inject
    overlap,     \* whether the event is redelivered while a Sync of it still runs
    cert,        \* certificate controller: its flag, its informers, a delete handler
    pvc,         \* backup controller: the claim, the database lock, a Reconcile call
    watch,       \* backup controller: an event on a claim and what its predicate answered
    http         \* subscription report API: one request and the response written so far

vars == <<payload, secrets, configs, clusters, run, log, faultsLeft, overlap, cert, pvc,
          watch, http>>

\* The state of the migration syncer and the state of the other components.
migration == <<payload, secrets, configs, clusters, run, log, faultsLeft, overlap>>
services == <<watch, http>>
components == <<cert, pvc, watch, http>>

\* The other components before they are started.
NoCert == [started |-> FALSE]
NoPvc == [started |-> FALSE]
NoWatch == [started |-> FALSE]
NoHttp == [started |-> FALSE]
ServicesIdle == watch = NoWatch /\ http = NoHttp
OthersIdle == cert = NoCert /\ pvc = NoPvc /\ ServicesIdle

-----------------------------------------------------------------------------
(* Bounds of the model *)

MaxTicks == 2       \* condition evaluations of one PollUntilContextCancel
MaxFaults == 1      \* client calls that fail with an error of the store

Runs == {1, 2}          \* deliveries of the event, numbered in the order they start
ClusterNames == {"c1", "c2"}

-----------------------------------------------------------------------------
(* Program constants and the values the objects range over *)

bootstrapSecretBackupSuffix == "-backup"
KlusterletConfigAnnotation == "agent.open-cluster-management.io/klusterlet-config"
ManagedClusterMigrating == "global-hub.open-cluster-management.io/migrating"
ConditionUnknown == "Unknown"

NoObj == [present |-> FALSE]
NoCond == "NoCondition"       \* the object carries no Availability condition

NewData == {<<"kubeconfig", "hub2">>}
OldData == {<<"kubeconfig", "hub1">>, <<"token", "t1">>}
OwnerAnnotation == <<"owner", "team-a">>

\* The decoded event (bundleevent.ManagedClusterMigrationFromEvent).
Event(list) ==
    [BootstrapSecret  |-> [Name |-> "bootstrap-hub2", Namespace |-> "multicluster-engine",
                           Data |-> NewData],
     KlusterletConfig |-> [Name |-> "migration-hub2", KubeConfigSecrets |-> <<>>],
     ManagedClusters  |-> list]

ClusterLists == {<< >>, <<"c1">>, <<"c1", "c2">>}
Events == {Event(l) : l \in ClusterLists}
Malformed == [garbage |-> TRUE]
Payloads == Events \cup {Malformed}

\* Variant: the error of the decoder is ignored, Sync goes on with the zero event.
UnmarshalLenient(p) ==
    [err |-> "nil", event |-> IF p \in Events THEN p ELSE Event(<< >>)]

\* json.Unmarshal(payload, event): an error for bytes that are no event.
Unmarshal(p) ==
    IF p \in Events THEN [err |-> "nil", event |-> p]
                    ELSE [err |-> "DecodeError", event |-> Event(<< >>)]

ev == Unmarshal(payload).event

-----------------------------------------------------------------------------
(* Annotation maps (Go map[string]string) as sets of <<key, value>> *)

HasKey(ann, k) == \E kv \in ann : kv[1] = k
\* A Go map read: the zero value "" for a missing key.
Lookup(ann, k) == IF HasKey(ann, k) THEN (CHOOSE kv \in ann : kv[1] = k)[2] ELSE ""
SetKey(ann, k, v) == {kv \in ann : kv[1] # k} \cup {<<k, v>>}

\* meta.IsStatusConditionPresentAndEqual on the Availability condition.
IsStatusConditionPresentAndEqual(avail, status) == avail # NoCond /\ avail = status

-----------------------------------------------------------------------------
(* Objects Sync builds from the event *)

SecretKey(s) == <<s.Namespace, s.Name>>

\* Variant: the backup secret is built without the data of the bootstrap secret.
BootstrapSecretBackupNoData(bs) ==
    [Name |-> bs.Name \o bootstrapSecretBackupSuffix, Namespace |-> bs.Namespace,
     Data |-> {}]

BootstrapSecretBackup(bs) ==
    [Name |-> bs.Name \o bootstrapSecretBackupSuffix, Namespace |-> bs.Namespace,
     Data |-> bs.Data]

\* Variant: the backup secret is listed first.
KubeConfigSecretsSwapped(bs) == <<BootstrapSecretBackup(bs).Name, bs.Name>>

\* Lines 105-112.
KubeConfigSecrets(bs) == <<bs.Name, BootstrapSecretBackup(bs).Name>>

KlusterletConfig(e) ==
    [e.KlusterletConfig EXCEPT !.KubeConfigSecrets = KubeConfigSecrets(e.BootstrapSecret)]

SecretOf(which) ==
    IF which = "s" THEN ev.BootstrapSecret ELSE BootstrapSecretBackup(ev.BootstrapSecret)

SecretKeys == {SecretKey(SecretOf("s")), SecretKey(SecretOf("b"))}
ConfigNames == {ev.KlusterletConfig.Name}

-----------------------------------------------------------------------------
(* The state after construction and the states the store can be in *)

InitRun == [pc |-> "start", idx |-> 0, tick |-> 0, mcl |-> NoObj,
            syncRes |-> "none", detachRes |-> "none"]

Secret(data) == [present |-> TRUE, Data |-> data]
Config(refs) == [present |-> TRUE, KubeConfigSecrets |-> refs]
Cluster(ann, avail) == [present |-> TRUE, ann |-> ann, avail |-> avail]

FreshAnnotations == {OwnerAnnotation}
StaleAnnotations ==
    {OwnerAnnotation, <<ManagedClusterMigrating, "">>,
     <<KlusterletConfigAnnotation, "migration-hub1">>}

InitAvailability == {"True", "False", ConditionUnknown, NoCond}

InitClusters(anns) ==
    {NoObj} \cup {Cluster(a, v) : a \in anns, v \in InitAvailability}

InitRuns ==
    /\ payload \in Payloads
    /\ run = [r \in Runs |-> InitRun]
    /\ log = {}
    /\ OthersIdle

\* Any mix of objects left by earlier migrations.
InitStore ==
    /\ InitRuns
    /\ secrets \in [SecretKeys -> {NoObj, Secret(OldData)}]
    /\ configs \in [ConfigNames -> {NoObj, Config(<<"bootstrap-hub1">>)}]
    /\ clusters \in [ClusterNames -> InitClusters({FreshAnnotations, StaleAnnotations})]

\* A hub that never migrated its clusters.
InitFresh ==
    /\ InitRuns
    /\ secrets = [k \in SecretKeys |-> NoObj]
    /\ configs = [n \in ConfigNames |-> NoObj]
    /\ clusters \in [ClusterNames -> InitClusters({FreshAnnotations})]

\* A hub that holds the objects of an earlier migration to another hub.
InitStale ==
    /\ InitRuns
    /\ secrets = [k \in SecretKeys |-> Secret(OldData)]
    /\ configs = [n \in ConfigNames |-> Config(<<"bootstrap-hub1">>)]
    /\ clusters \in [ClusterNames -> InitClusters({StaleAnnotations})]

Init == (InitFresh \/ InitStale) /\ faultsLeft = MaxFaults /\ overlap = TRUE

-----------------------------------------------------------------------------
(* Helpers of the steps *)

\* Whether this call fails with an error of the store other than NotFound.
Faults == IF faultsLeft > 0 THEN {TRUE, FALSE} ELSE {FALSE}
Consume(f) == faultsLeft' = IF f THEN faultsLeft - 1 ELSE faultsLeft

Op(r, op, kind, key, res) ==
    [run |-> r, op |-> op, kind |-> kind, key |-> key, res |-> res,
     seen |-> "-", stored |-> "-"]
Logged(o) == log' = log \cup {o}

Set(r, st) == run' = [run EXCEPT ![r] = st]

\* Variant: the error is dropped, Sync returns nil.
ReturnNil(st, err) == [st EXCEPT !.pc = "done", !.idx = 0, !.mcl = NoObj, !.syncRes = "nil"]

\* Variant: the error is kept but Sync goes on to detach the clusters.
ReturnLogged(st, err) ==
    IF Len(ev.ManagedClusters) = 0
    THEN [st EXCEPT !.pc = "done", !.idx = 0, !.mcl = NoObj, !.syncRes = err]
    ELSE [st EXCEPT !.pc = "d_get", !.idx = 1, !.tick = 1, !.mcl = NoObj, !.syncRes = err]

\* Sync returns err (lines 45, 59, 62, ... 150).
Return(st, err) == [st EXCEPT !.pc = "done", !.idx = 0, !.mcl = NoObj, !.syncRes = err]

\* Variant: Sync returns the error of detachManagedClusters.
ReturnAfterDetachError(st, err) ==
    [st EXCEPT !.pc = "done", !.idx = 0, !.mcl = NoObj, !.detachRes = err, !.syncRes = err]

\* Variant: an error of a client call ends the pass, not the poll.
ReturnAfterDetachRetry(st, err) ==
    IF err \in {"nil", "Canceled"}
    THEN [st EXCEPT !.pc = "done", !.idx = 0, !.mcl = NoObj, !.detachRes = err, !.syncRes = "nil"]
    ELSE [st EXCEPT !.pc = "d_wait", !.idx = 0, !.mcl = NoObj]

\* Lines 155-159: the result of detachManagedClusters is logged, Sync returns nil.
ReturnAfterDetach(st, err) ==
    [st EXCEPT !.pc = "done", !.idx = 0, !.mcl = NoObj, !.detachRes = err, !.syncRes = "nil"]

\* Variant: the end of a pass never completes the poll, another pass follows.
PollFromNeverDone(st, i) ==
    IF i > Len(ev.ManagedClusters)
    THEN [st EXCEPT !.pc = "d_wait", !.idx = 0, !.mcl = NoObj]
    ELSE [st EXCEPT !.pc = "d_get", !.idx = i, !.mcl = NoObj]

\* The condition function of the poll is at item i of its pass (lines 164-184):
\* past the last item the pass is complete and the poll returns nil.
PollFrom(st, i) ==
    IF i > Len(ev.ManagedClusters)
    THEN ReturnAfterDetach(st, "nil")
    ELSE [st EXCEPT !.pc = "d_get", !.idx = i, !.mcl = NoObj]

\* Line 155 and wait.PollUntilContextCancel(ctx, 2s, immediate = true, ...):
\* the first evaluation of the condition runs at once.
Detach(st) == PollFrom([st EXCEPT !.tick = 1], 1)

\* The annotation loop (line 130) is at item i; past the last item Sync goes on
\* to detach the clusters.
AnnotateFrom(st, i) ==
    IF i > Len(ev.ManagedClusters)
    THEN Detach(st)
    ELSE [st EXCEPT !.pc = "a_get", !.idx = i, !.mcl = NoObj]

\* Variant: the marker alone decides, whatever config the cluster was announced for.
AlreadyMigratingAnyConfig(ann, name) == HasKey(ann, ManagedClusterMigrating)

\* Line 143: the cluster was already announced for this klusterlet config.
AlreadyMigrating(ann, name) ==
    HasKey(ann, ManagedClusterMigrating) /\ Lookup(ann, KlusterletConfigAnnotation) = name

\* Variant: the annotations are replaced by a new map with the two keys.
MigratingAnnotationsOnly(ann, name) ==
    {<<KlusterletConfigAnnotation, name>>, <<ManagedClusterMigrating, "">>}

\* Lines 146-147.
MigratingAnnotations(ann, name) ==
    SetKey(SetKey(ann, KlusterletConfigAnnotation, name), ManagedClusterMigrating, "")

\* Variant: every cluster that is not Available=True is taken for detached.
DetachDecisionNotTrue(found, avail) ==
    IF ~found THEN "continue"
    ELSE IF avail # "True" THEN "delete"
    ELSE "retry"

\* Variant: a cluster that is not ready is skipped instead of ending the pass.
DetachDecisionSkip(found, avail) ==
    IF ~found THEN "continue"
    ELSE IF IsStatusConditionPresentAndEqual(avail, ConditionUnknown) THEN "delete"
    ELSE "continue"

\* Variant: a cluster that the store does not hold counts as not ready.
DetachDecisionAbsentRetry(found, avail) ==
    IF ~found THEN "retry"
    ELSE IF IsStatusConditionPresentAndEqual(avail, ConditionUnknown) THEN "delete"
    ELSE "retry"

\* Variant: the condition is compared with False instead of Unknown.
DetachDecisionOnFalse(found, avail) ==
    IF ~found THEN "continue"
    ELSE IF IsStatusConditionPresentAndEqual(avail, "False") THEN "delete"
    ELSE "retry"

\* Lines 169-182: what the condition does with one cluster.
DetachDecision(found, avail) ==
    IF ~found THEN "continue"
    ELSE IF IsStatusConditionPresentAndEqual(avail, ConditionUnknown) THEN "delete"
    ELSE "retry"

\* Variant: the klusterlet config is never created.
ConfigDecisionNeverCreate(found) == "keep"

\* Variant: the klusterlet config is created whether or not the Get found it.
ConfigDecisionAlwaysCreate(found) == "create"

\* Lines 114-126: what Sync does once the Get of the klusterlet config returned.
ConfigDecision(found) == IF found THEN "keep" ELSE "create"

\* Variant: the loop is left after the first update.
AfterUpdateLeave(st, i) == Detach(st)

\* Lines 149-152: after a successful update the loop goes on with the next cluster.
AfterUpdate(st, i) == AnnotateFrom(st, i + 1)

\* client.Update replaces the stored object by the one it is given (lines 67, 97).
UpdatedSecret(stored, obj) == Secret(obj.Data)

\* The copy of a managed cluster that a Get fills in (lines 131-132, 165-166).
\* The store versions every object (resourceVersion); fresh tells whether the
\* stored object still has the version that was read.
Snapshot(name) == [clusters[name] EXCEPT !.present = TRUE] @@ [name |-> name, fresh |-> TRUE]

\* A write to cluster c gives it a new version: the copies read before are stale.
Outdated(st, c) ==
    IF st.mcl.present /\ st.mcl.name = c THEN [st EXCEPT !.mcl.fresh = FALSE] ELSE st

-----------------------------------------------------------------------------
(* Sync, one client call per step *)

\* Lines 41-46: Sync is called with the payload and decodes it.  Deliveries are
\* numbered in the order they are handed to Sync; without overlap a delivery
\* is handed over only after the Sync of the one before it returned.
Decode(r) ==
    /\ run[r].pc = "start"
    /\ \A q \in Runs : q < r => run[q].pc # "start" /\ (overlap \/ run[q].pc = "done")
    /\ Set(r, IF Unmarshal(payload).err # "nil"
              THEN Return(run[r], Unmarshal(payload).err)
              ELSE [run[r] EXCEPT !.pc = "s_get"])
    /\ UNCHANGED <<payload, secrets, configs, clusters, log, faultsLeft, overlap, components>>

\* Lines 51-56 (which = "s") and 81-86 (which = "b"): Get of the secret.
SecretGet(r, which) ==
    /\ run[r].pc = which \o "_get"
    /\ \E f \in Faults :
        LET key == SecretKey(SecretOf(which))
            res == IF f THEN "StoreError"
                   ELSE IF secrets[key].present THEN "ok" ELSE "NotFound"
        IN  /\ Set(r, CASE res = "StoreError" -> Return(run[r], res)
                        [] res = "NotFound" -> [run[r] EXCEPT !.pc = which \o "_create"]
                        [] OTHER -> [run[r] EXCEPT !.pc = which \o "_update"])
            /\ Logged(Op(r, "get", "secret", key, "-"))
            /\ Consume(f)
    /\ UNCHANGED <<payload, secrets, configs, clusters, overlap, components>>

AfterSecret(which) == IF which = "s" THEN "b_get" ELSE "k_get"

\* Lines 57-60 and 87-90: Create of the secret.
SecretCreate(r, which) ==
    /\ run[r].pc = which \o "_create"
    /\ \E f \in Faults :
        LET obj == SecretOf(which)
            key == SecretKey(obj)
            res == IF f THEN "StoreError"
                   ELSE IF secrets[key].present THEN "AlreadyExists" ELSE "ok"
        IN  /\ Set(r, IF res = "ok" THEN [run[r] EXCEPT !.pc = AfterSecret(which)]
                      ELSE Return(run[r], res))
            /\ secrets' = IF res = "ok" THEN [secrets EXCEPT ![key] = Secret(obj.Data)]
                          ELSE secrets
            /\ Logged(Op(r, "create", "secret", key, res))
            /\ Consume(f)
    /\ UNCHANGED <<payload, configs, clusters, overlap, components>>

\* Lines 65-69 and 95-99: Update of the secret.
SecretUpdate(r, which) ==
    /\ run[r].pc = which \o "_update"
    /\ \E f \in Faults :
        LET obj == SecretOf(which)
            key == SecretKey(obj)
            res == IF f THEN "StoreError"
                   ELSE IF secrets[key].present THEN "ok" ELSE "NotFound"
        IN  /\ Set(r, IF res = "ok" THEN [run[r] EXCEPT !.pc = AfterSecret(which)]
                      ELSE Return(run[r], res))
            /\ secrets' = IF res = "ok"
                          THEN [secrets EXCEPT ![key] = UpdatedSecret(secrets[key], obj)]
                          ELSE secrets
            /\ Logged(Op(r, "update", "secret", key, res))
            /\ Consume(f)
    /\ UNCHANGED <<payload, configs, clusters, overlap, components>>

\* Lines 113-126: Get of the klusterlet config.
ConfigGet(r) ==
    /\ run[r].pc = "k_get"
    /\ \E f \in Faults :
        LET name == KlusterletConfig(ev).Name
            res == IF f THEN "StoreError"
                   ELSE IF configs[name].present THEN "ok" ELSE "NotFound"
        IN  /\ Set(r, IF res = "StoreError" THEN Return(run[r], res)
                      ELSE IF ConfigDecision(res = "ok") = "create"
                           THEN [run[r] EXCEPT !.pc = "k_create"]
                           ELSE AnnotateFrom(run[r], 1))
            /\ Logged(Op(r, "get", "config", name, "-"))
            /\ Consume(f)
    /\ UNCHANGED <<payload, secrets, configs, clusters, overlap, components>>

\* Lines 119-122: Create of the klusterlet config.
ConfigCreate(r) ==
    /\ run[r].pc = "k_create"
    /\ \E f \in Faults :
        LET obj == KlusterletConfig(ev)
            res == IF f THEN "StoreError"
                   ELSE IF configs[obj.Name].present THEN "AlreadyExists" ELSE "ok"
        IN  /\ Set(r, IF res = "ok" THEN AnnotateFrom(run[r], 1) ELSE Return(run[r], res))
            /\ configs' = IF res = "ok"
                          THEN [configs EXCEPT ![obj.Name] = Config(obj.KubeConfigSecrets)]
                          ELSE configs
            /\ Logged(Op(r, "create", "config", obj.Name, res))
            /\ Consume(f)
    /\ UNCHANGED <<payload, secrets, clusters, overlap, components>>

\* Lines 131-145: Get of the managed cluster and the guard on its annotations.
AnnGet(r) ==
    /\ run[r].pc = "a_get"
    /\ \E f \in Faults :
        LET name == ev.ManagedClusters[run[r].idx]
            res == IF f THEN "StoreError"
                   ELSE IF clusters[name].present THEN "ok" ELSE "NotFound"
        IN  /\ Set(r, IF res # "ok" THEN Return(run[r], res)
                      ELSE IF AlreadyMigrating(clusters[name].ann, KlusterletConfig(ev).Name)
                           THEN AnnotateFrom(run[r], run[r].idx + 1)
                           ELSE [run[r] EXCEPT !.pc = "a_update", !.mcl = Snapshot(name)])
            /\ Logged(Op(r, "get", "cluster", name, "-"))
            /\ Consume(f)
    /\ UNCHANGED <<payload, secrets, configs, clusters, overlap, components>>

\* Lines 146-151: Update of the managed cluster read at line 132; the store
\* refuses an update made from a stale read (resourceVersion) with Conflict.
AnnUpdate(r) ==
    /\ run[r].pc = "a_update"
    /\ \E f \in Faults :
        LET mcl == run[r].mcl
            res == IF f THEN "StoreError"
                   ELSE IF ~clusters[mcl.name].present THEN "NotFound"
                   ELSE IF ~mcl.fresh THEN "Conflict" ELSE "ok"
        IN  /\ run' = [q \in Runs |->
                        IF q # r THEN (IF res = "ok" THEN Outdated(run[q], mcl.name) ELSE run[q])
                        ELSE IF res = "ok" THEN AfterUpdate(run[r], run[r].idx)
                        ELSE Return(run[r], res)]
            /\ clusters' = IF res = "ok"
                           THEN [clusters EXCEPT ![mcl.name].ann =
                                     MigratingAnnotations(mcl.ann, KlusterletConfig(ev).Name)]
                           ELSE clusters
            /\ Logged(Op(r, "update", "cluster", mcl.name, res))
            /\ Consume(f)
    /\ UNCHANGED <<payload, secrets, configs, overlap, components>>

-----------------------------------------------------------------------------
(* detachManagedClusters: the condition of the poll, one client call per step *)

\* Lines 165-182: Get of the managed cluster and what the condition does with it.
DetachGet(r) ==
    /\ run[r].pc = "d_get"
    /\ \E f \in Faults :
        LET name == ev.ManagedClusters[run[r].idx]
            obj == clusters[name]
            res == IF f THEN "StoreError" ELSE IF obj.present THEN "ok" ELSE "NotFound"
            todo == DetachDecision(obj.present, IF obj.present THEN obj.avail ELSE NoCond)
        IN  /\ Set(r, CASE res = "StoreError" -> ReturnAfterDetach(run[r], res)
                        [] res # "StoreError" /\ todo = "continue" ->
                               PollFrom(run[r], run[r].idx + 1)
                        [] res # "StoreError" /\ todo = "delete" ->
                               [run[r] EXCEPT !.pc = "d_delete", !.mcl = Snapshot(name)]
                        [] OTHER -> [run[r] EXCEPT !.pc = "d_wait", !.idx = 0])
            /\ Logged(Op(r, "get", "cluster", name, "-"))
            /\ Consume(f)
    /\ UNCHANGED <<payload, secrets, configs, clusters, overlap, components>>

\* Variant: a successful Delete ends the pass, the next cluster waits for the
\* next evaluation of the condition.
DetachDeleteEndsPass(r) ==
    /\ run[r].pc = "d_delete"
    /\ \E f \in Faults :
        LET mcl == run[r].mcl
            obj == clusters[mcl.name]
            res == IF f THEN "StoreError" ELSE IF obj.present THEN "ok" ELSE "NotFound"
        IN  /\ Set(r, IF res = "ok" THEN [run[r] EXCEPT !.pc = "d_wait", !.idx = 0, !.mcl = NoObj]
                      ELSE ReturnAfterDetach(run[r], res))
            /\ clusters' = IF res = "ok" THEN [clusters EXCEPT ![mcl.name] = NoObj]
                           ELSE clusters
            /\ Logged([Op(r, "delete", "cluster", mcl.name, res) EXCEPT
                          !.seen = mcl.avail,
                          !.stored = IF obj.present THEN obj.avail ELSE "absent"])
            /\ Consume(f)
    /\ UNCHANGED <<payload, secrets, configs, overlap, components>>

\* Lines 177-179: Delete of the managed cluster read at line 166, by name.
DetachDelete(r) ==
    /\ run[r].pc = "d_delete"
    /\ \E f \in Faults :
        LET mcl == run[r].mcl
            obj == clusters[mcl.name]
            res == IF f THEN "StoreError" ELSE IF obj.present THEN "ok" ELSE "NotFound"
        IN  /\ Set(r, IF res = "ok" THEN PollFrom(run[r], run[r].idx + 1)
                      ELSE ReturnAfterDetach(run[r], res))
            /\ clusters' = IF res = "ok" THEN [clusters EXCEPT ![mcl.name] = NoObj]
                           ELSE clusters
            /\ Logged([Op(r, "delete", "cluster", mcl.name, res) EXCEPT
                          !.seen = mcl.avail,
                          !.stored = IF obj.present THEN obj.avail ELSE "absent"])
            /\ Consume(f)
    /\ UNCHANGED <<payload, secrets, configs, overlap, components>>

\* Line 163: the interval elapsed, the condition is evaluated again from the
\* first cluster.
Tick(r) ==
    /\ run[r].pc = "d_wait"
    /\ run[r].tick < MaxTicks
    /\ Set(r, PollFrom([run[r] EXCEPT !.tick = @ + 1], 1))
    /\ UNCHANGED <<payload, secrets, configs, clusters, log, faultsLeft, overlap, components>>

\* Variant: a cancelled poll reports success.
CancelReturnsNil(r) ==
    /\ run[r].pc = "d_wait"
    /\ Set(r, ReturnAfterDetach(run[r], "nil"))
    /\ UNCHANGED <<payload, secrets, configs, clusters, log, faultsLeft, overlap, components>>

\* Line 163: the context is cancelled while the poll waits; it returns ctx.Err().
Cancel(r) ==
    /\ run[r].pc = "d_wait"
    /\ Set(r, ReturnAfterDetach(run[r], "Canceled"))
    /\ UNCHANGED <<payload, secrets, configs, clusters, log, faultsLeft, overlap, components>>

-----------------------------------------------------------------------------
(* The environment: the agent (through the registration controller of the  *)
(* hub) changes the Availability condition of a managed cluster.           *)

AgentFlip(c, v) ==
    /\ clusters[c].present
    /\ clusters[c].avail # v
    /\ clusters' = [clusters EXCEPT ![c].avail = v]
    /\ run' = [q \in Runs |-> Outdated(run[q], c)]
    /\ UNCHANGED <<payload, secrets, configs, log, faultsLeft, overlap, components>>

-----------------------------------------------------------------------------
(* Specifications *)

Step(r) ==
    \/ Decode(r)
    \/ SecretGet(r, "s") \/ SecretCreate(r, "s") \/ SecretUpdate(r, "s")
    \/ SecretGet(r, "b") \/ SecretCreate(r, "b") \/ SecretUpdate(r, "b")
    \/ ConfigGet(r) \/ ConfigCreate(r)
    \/ AnnGet(r) \/ AnnUpdate(r)
    \/ DetachGet(r) \/ DetachDelete(r)
    \/ Tick(r) \/ Cancel(r)

\* Deliveries of the event run concurrently, next to the agent.
Next ==
    \/ \E r \in Runs : Step(r)
    \/ \E c \in ClusterNames, v \in {"True", ConditionUnknown} : AgentFlip(c, v)

Spec == Init /\ [][Next]_vars

\* Deliveries of the event one after the other, on a store that nobody else
\* writes and that does not fail.
InitSeq == InitStore /\ faultsLeft = 0 /\ overlap = FALSE

NextSeq == \E r \in Runs : Step(r)

SpecSeq == InitSeq /\ [][NextSeq]_vars

\* Two overlapping deliveries of the event on a store that does not fail and
\* that nobody else writes.
InitRace == (InitFresh \/ InitStale) /\ faultsLeft = 0 /\ overlap = TRUE

SpecRace == InitRace /\ [][NextSeq]_vars

\* The end-to-end scenario: one delivery of an event that names c1 and c2,
\* both Available=True, on a store that does not fail; between the passes of
\* the poll the external actor turns the clusters Unknown, one after the other.
ScenarioTicks == 4      \* condition evaluations the scenario leaves room for

InitScenario ==
    /\ payload = Event(<<"c1", "c2">>)
    /\ run = [r \in Runs |-> InitRun]
    /\ log = {}
    /\ secrets \in [SecretKeys -> {NoObj, Secret(OldData)}]
    /\ configs \in [ConfigNames -> {NoObj, Config(<<"bootstrap-hub1">>)}]
    /\ clusters \in [ClusterNames -> {Cluster(a, "True") : a \in {FreshAnnotations, StaleAnnotations}}]
    /\ faultsLeft = 0
    /\ overlap = FALSE
    /\ OthersIdle

\* The cluster the external actor turns Unknown after pass n of the poll.
ScenarioCluster(n) == ev.ManagedClusters[n]

\* After pass n (n = 1, 2) the external actor turns cluster n Unknown.
ScenarioFlip ==
    /\ run[1].pc = "d_wait"
    /\ run[1].tick <= Len(ev.ManagedClusters)
    /\ AgentFlip(ScenarioCluster(run[1].tick), ConditionUnknown)

\* Line 163: the interval elapses once the external actor has acted.
ScenarioTick ==
    /\ run[1].pc = "d_wait"
    /\ run[1].tick < ScenarioTicks
    /\ run[1].tick <= Len(ev.ManagedClusters) =>
           clusters[ScenarioCluster(run[1].tick)].avail = ConditionUnknown
    /\ Set(1, PollFrom([run[1] EXCEPT !.tick = @ + 1], 1))
    /\ UNCHANGED <<payload, secrets, configs, clusters, log, faultsLeft, overlap, components>>

NextScenario ==
    \/ Decode(1)
    \/ SecretGet(1, "s") \/ SecretCreate(1, "s") \/ SecretUpdate(1, "s")
    \/ SecretGet(1, "b") \/ SecretCreate(1, "b") \/ SecretUpdate(1, "b")
    \/ ConfigGet(1) \/ ConfigCreate(1)
    \/ AnnGet(1) \/ AnnUpdate(1)
    \/ DetachGet(1) \/ DetachDelete(1)
    \/ ScenarioTick \/ Cancel(1)
    \/ ScenarioFlip

SpecScenario == InitScenario /\ [][NextScenario]_vars

\* One delivery of the event that is never cancelled, on a store that does not
\* fail, with an agent that sooner or later turns every cluster Unknown and
\* leaves it so.  The number of the pass is counted up to MaxTicks only; the
\* poll itself goes on.
InitLive == (InitFresh \/ InitStale) /\ faultsLeft = 0 /\ overlap = FALSE

\* Line 163: the interval elapsed.
LiveTick ==
    /\ run[1].pc = "d_wait"
    /\ Set(1, PollFrom([run[1] EXCEPT !.tick = IF @ < MaxTicks THEN @ + 1 ELSE @], 1))
    /\ UNCHANGED <<payload, secrets, configs, clusters, log, faultsLeft, overlap, components>>

LiveFlip(c) == AgentFlip(c, ConditionUnknown)

StepLive ==
    \/ Decode(1)
    \/ SecretGet(1, "s") \/ SecretCreate(1, "s") \/ SecretUpdate(1, "s")
    \/ SecretGet(1, "b") \/ SecretCreate(1, "b") \/ SecretUpdate(1, "b")
    \/ ConfigGet(1) \/ ConfigCreate(1)
    \/ AnnGet(1) \/ AnnUpdate(1)
    \/ DetachGet(1) \/ DetachDelete(1)
    \/ LiveTick

NextLive ==
    \/ StepLive
    \/ \E c \in ClusterNames : LiveFlip(c)

\* Sync runs on its goroutine until it returns and the timer of the poll
\* fires; the agent of a cluster that is not yet Unknown turns it Unknown.
SpecLive ==
    /\ InitLive /\ [][NextLive]_vars
    /\ WF_vars(StepLive)
    /\ \A c \in ClusterNames : WF_vars(LiveFlip(c))

-----------------------------------------------------------------------------
(* The certificate controller (package certificates): Start and the        *)
(* handler of a deleted secret.                                            *)

MaxCalls == 2       \* calls of Start by one caller
MaxGets == 9        \* Gets of the secret that one handler may issue
MaxRetries == 6     \* line 159

Callers == {1, 2}   \* goroutines that call Start
caSecretNames == {"serverCACerts", "clientCACerts"}
WatchedSecrets == caSecretNames \cup {"serverCerts"}

\* The migration syncer stays as constructed while another component runs.
MigrationIdle ==
    /\ payload = Malformed
    /\ secrets = [k \in SecretKeys |-> NoObj]
    /\ configs = [n \in ConfigNames |-> NoObj]
    /\ clusters = [c \in ClusterNames |-> NoObj]
    /\ run = [r \in Runs |-> InitRun]
    /\ log = {}
    /\ faultsLeft = 0
    /\ overlap = FALSE

IdleHandler == [pc |-> "idle", name |-> "-", i |-> 0, gets |-> 0, appended |-> FALSE]

\* Line 37: the package variable starts false; no informer runs; the secret
\* that was deleted is not there (the operator may recreate it).
InitCert ==
    /\ MigrationIdle
    /\ pvc = NoPvc
    /\ ServicesIdle
    /\ cert = [started |-> TRUE,
               isCertControllerRunnning |-> FALSE,
               informers |-> 0,
               caller |-> [k \in Callers |-> [pc |-> "idle", calls |-> 0]],
               recreated |-> FALSE,
               h |-> IdleHandler]

\* Lines 40-43: a caller enters Start and reads the flag.
StartCheck(k) ==
    /\ cert.caller[k].pc = "idle"
    /\ cert.caller[k].calls < MaxCalls
    /\ cert' = IF cert.isCertControllerRunnning
               THEN [cert EXCEPT !.caller[k].calls = @ + 1]
               ELSE [cert EXCEPT !.caller[k].pc = "set"]
    /\ UNCHANGED <<migration, pvc, services>>

\* Line 44: the caller writes the flag.
StartSet(k) ==
    /\ cert.caller[k].pc = "set"
    /\ cert' = [cert EXCEPT !.isCertControllerRunnning = TRUE, !.caller[k].pc = "run"]
    /\ UNCHANGED <<migration, pvc, services>>

\* Lines 46-65: the caller creates the informer, runs it and returns.
StartRun(k) ==
    /\ cert.caller[k].pc = "run"
    /\ cert' = [cert EXCEPT !.informers = @ + 1,
                            !.caller[k].pc = "idle", !.caller[k].calls = @ + 1]
    /\ UNCHANGED <<migration, pvc, services>>

\* Lines 126-130: an informer hands a deleted secret to the handler, which
\* returns for a secret that is no CA secret.
OnDelete(name) ==
    /\ cert.informers >= 1
    /\ cert.h.pc = "idle"
    /\ cert' = [cert EXCEPT !.h = IF name \in caSecretNames
                                  THEN [IdleHandler EXCEPT !.pc = "mgh", !.name = name]
                                  ELSE [IdleHandler EXCEPT !.pc = "done", !.name = name]]
    /\ UNCHANGED <<migration, pvc, services>>

\* Lines 131-141: Get of the MulticlusterGlobalHub; the handler returns on an error.
GetMGH ==
    /\ cert.h.pc = "mgh"
    /\ \E ok \in BOOLEAN :
           cert' = [cert EXCEPT !.h.pc = IF ok THEN "get" ELSE "done", !.h.i = 0]
    /\ UNCHANGED <<migration, pvc, services>>

\* What the loop does after a Get that failed (lines 157-166).
AfterGetError(h) ==
    IF h.i < MaxRetries
    THEN [h EXCEPT !.pc = "get", !.i = @ + 1, !.gets = @ + 1]
    ELSE [h EXCEPT !.pc = "done", !.gets = @ + 1]

\* What the loop does after an Update that failed (lines 151-153).
AfterUpdateError(h) == [h EXCEPT !.pc = "get", !.i = @ + 1]

\* Lines 143-148 and 157-166: Get of the secret of that name.
GetCASecret ==
    /\ cert.h.pc = "get"
    /\ cert.h.gets < MaxGets
    /\ \E ok \in {cert.recreated, FALSE} :
           cert' = [cert EXCEPT !.h = IF ok THEN [@ EXCEPT !.pc = "update", !.gets = @ + 1]
                                      ELSE AfterGetError(@)]
    /\ UNCHANGED <<migration, pvc, services>>

\* Lines 149-156: the certificate is appended and the secret updated.
UpdateCASecret ==
    /\ cert.h.pc = "update"
    /\ \E ok \in {cert.recreated, FALSE} :
           cert' = [cert EXCEPT !.h = IF ok THEN [@ EXCEPT !.pc = "done", !.appended = TRUE]
                                      ELSE AfterUpdateError(@)]
    /\ UNCHANGED <<migration, pvc, services>>

\* The operator recreates the CA secret.
RecreateSecret ==
    /\ cert.started /\ ~cert.recreated
    /\ cert' = [cert EXCEPT !.recreated = TRUE]
    /\ UNCHANGED <<migration, pvc, services>>

NextCert ==
    \/ \E k \in Callers : StartCheck(k) \/ StartSet(k) \/ StartRun(k)
    \/ \E name \in WatchedSecrets : OnDelete(name)
    \/ GetMGH \/ GetCASecret \/ UpdateCASecret
    \/ RecreateSecret

SpecCert == InitCert /\ [][NextCert]_vars

-----------------------------------------------------------------------------
(* The PVC backup reconciler (BackupPVCReconciler.Reconcile).              *)

PollInterval == 5       \* seconds, line 144
PollTimeout == 120      \* seconds, line 144
RetrySteps == 4         \* retry.DefaultBackoff.Steps, line 124

BackupPvcCompletedTrigger == "Completed"
CopyStatuses == {"WaitingForTrigger", "InProgress", BackupPvcCompletedTrigger}
NoValue == <<>>         \* an annotation that is not set

\* time.Now().Format(time.RFC3339), hour by hour, as the characters it is made of.
Clock == {"10", "11"}
EarlierHour == "09"
RFC3339(h) == <<"2024-01-01T", h, ":", "00", ":", "00", "Z">>

\* strings.ReplaceAll(s, old, new)
ReplaceAll(s, old, new) == [j \in 1..Len(s) |-> IF s[j] = old THEN new ELSE s[j]]

\* Lines 122-123
formatTriggerTime(h) == ReplaceAll(RFC3339(h), ":", ".")

\* utils.HasLabel(annotations, key, value) on the annotations of the PVC
HasLabel(ann, key, value) == ann[key] = value

\* utils.AddAnnotations(updatePvc, {BackupPvcCopyTrigger: T})
AddAnnotations(ann, T) == [ann EXCEPT !.copyTrigger = T]

\* The annotations of the PVC before Reconcile: never backed up, an earlier
\* backup completed, or an earlier backup still running.
InitAnnotations ==
    LET old == formatTriggerTime(EarlierHour) IN
    { [copyTrigger |-> NoValue, latestStatus |-> NoValue, latestTrigger |-> NoValue],
      [copyTrigger |-> old, latestStatus |-> BackupPvcCompletedTrigger, latestTrigger |-> old],
      [copyTrigger |-> old, latestStatus |-> "InProgress", latestTrigger |-> NoValue] }

InitReconcile ==
    [pc |-> "enabled", res |-> "-", enabled |-> "-", lock |-> "-", deferred |-> FALSE,
     T |-> NoValue, attempts |-> 0, snap |-> NoValue, fresh |-> FALSE,
     elapsed |-> 0, closed |-> FALSE, obs |-> NoValue, waitGetFailed |-> FALSE]

InitPvc ==
    /\ MigrationIdle
    /\ cert = NoCert
    /\ ServicesIdle
    /\ \E a \in InitAnnotations :
           pvc = [started |-> TRUE, ann |-> a, ann0 |-> a, held |-> FALSE,
                  writes |-> {}, rc |-> InitReconcile]

\* The condition of the wait (lines 150-156).
BackupDoneAnyTrigger(ann, T) ==
    HasLabel(ann, "latestStatus", BackupPvcCompletedTrigger)
BackupDone(ann, T) ==
    /\ HasLabel(ann, "latestStatus", BackupPvcCompletedTrigger)
    /\ HasLabel(ann, "latestTrigger", T)

\* A return of Reconcile: the deferred Unlock of line 120 runs if it was
\* registered.
ReconcileReturnNoUnlock(p, res) ==
    [p EXCEPT !.rc.pc = "done", !.rc.res = res]
ReconcileReturn(p, res) ==
    [p EXCEPT !.rc.pc = "done", !.rc.res = res,
              !.held = IF p.rc.deferred THEN FALSE ELSE @]

\* Lines 101-110
IsBackupEnabled ==
    /\ pvc.started /\ pvc.rc.pc = "enabled"
    /\ \E e \in {"err", "false", "true"} :
           LET p == [pvc EXCEPT !.rc.enabled = e] IN
           pvc' = CASE e = "err" -> ReconcileReturn(p, "Error")
                    [] e = "false" -> ReconcileReturn(p, "nil")
                    [] OTHER -> [p EXCEPT !.rc.pc = "lock"]
    /\ UNCHANGED <<migration, cert, services>>

\* Lines 114-123: database.Lock; on success the Unlock is deferred and the
\* trigger value is taken from the clock.
DbLock ==
    /\ pvc.started /\ pvc.rc.pc = "lock"
    /\ \/ pvc' = ReconcileReturn([pvc EXCEPT !.rc.lock = "err"], "Error")
       \/ \E h \in Clock :
              pvc' = [pvc EXCEPT !.held = TRUE, !.rc.lock = "ok", !.rc.deferred = TRUE,
                                 !.rc.T = formatTriggerTime(h), !.rc.pc = "get"]
    /\ UNCHANGED <<migration, cert, services>>

\* Lines 125-130: Get inside retry.RetryOnConflict.
RetryGet ==
    /\ pvc.started /\ pvc.rc.pc = "get"
    /\ \E ok \in BOOLEAN :
           pvc' = IF ok
                  THEN [pvc EXCEPT !.rc.snap = pvc.ann, !.rc.fresh = TRUE, !.rc.pc = "update"]
                  ELSE ReconcileReturn(pvc, "Error")
    /\ UNCHANGED <<migration, cert, services>>

\* Lines 131-142: Update of the copy with the trigger annotation; a Conflict
\* is retried while the backoff has steps left.
RetryUpdate ==
    /\ pvc.started /\ pvc.rc.pc = "update"
    /\ \E res \in {"Conflict", "Error"} \cup (IF pvc.rc.fresh THEN {"ok"} ELSE {}) :
           pvc' = CASE res = "ok" ->
                         [pvc EXCEPT !.ann = AddAnnotations(pvc.rc.snap, pvc.rc.T),
                                     !.writes = @ \cup {[T |-> pvc.rc.T, held |-> pvc.held]},
                                     !.rc.pc = "poll", !.rc.elapsed = 0]
                    [] res = "Conflict" /\ pvc.rc.attempts + 1 < RetrySteps ->
                         [pvc EXCEPT !.rc.attempts = @ + 1, !.rc.pc = "get"]
                    [] OTHER -> ReconcileReturn(pvc, res)
    /\ UNCHANGED <<migration, cert, services>>

\* What wait.PollImmediate does after an evaluation that was not true: it
\* waits for the next tick, or gives up when the evaluation was the one that
\* follows the end of the timeout.
AfterFalse(p) ==
    IF p.rc.closed THEN ReconcileReturn(p, "Timeout")
    ELSE [p EXCEPT !.rc.pc = "sleep"]

\* Lines 144-157: one evaluation of the condition of wait.PollImmediate.
PollCheck ==
    /\ pvc.started /\ pvc.rc.pc = "poll"
    /\ \E ok \in BOOLEAN :
           pvc' = IF ~ok
                  THEN AfterFalse([pvc EXCEPT !.rc.waitGetFailed = TRUE])
                  ELSE LET p == [pvc EXCEPT !.rc.obs = pvc.ann] IN
                       IF BackupDone(pvc.ann, pvc.rc.T)
                       THEN ReconcileReturn(p, "nil")
                       ELSE AfterFalse(p)
    /\ UNCHANGED <<migration, cert, services>>

\* Lines 144 and 157-160: the interval passes and the condition is evaluated
\* again.  When the timeout has passed the poller closes its channel and the
\* condition is evaluated once more, for the last time; at the timeout
\* itself the tick or the end of the timeout may come first.
PollWait ==
    /\ pvc.started /\ pvc.rc.pc = "sleep"
    /\ LET t == pvc.rc.elapsed + PollInterval IN
       \E close \in {t > PollTimeout, t >= PollTimeout} :
           pvc' = [pvc EXCEPT !.rc.pc = "poll",
                              !.rc.elapsed = IF t <= PollTimeout THEN t ELSE PollTimeout,
                              !.rc.closed = close]
    /\ UNCHANGED <<migration, cert, services>>

\* volsync takes up the trigger on the PVC.
VolsyncInProgress ==
    /\ pvc.started
    /\ pvc.ann.copyTrigger # NoValue
    /\ pvc.ann.copyTrigger # pvc.ann.latestTrigger
    /\ pvc.ann.latestStatus # "InProgress"
    /\ pvc' = [pvc EXCEPT !.ann.latestStatus = "InProgress", !.rc.fresh = FALSE]
    /\ UNCHANGED <<migration, cert, services>>

\* volsync finishes the copy of the trigger it took up.
VolsyncComplete ==
    /\ pvc.started
    /\ pvc.ann.latestStatus = "InProgress"
    /\ pvc' = [pvc EXCEPT !.ann.latestStatus = BackupPvcCompletedTrigger,
                          !.ann.latestTrigger = pvc.ann.copyTrigger,
                          !.rc.fresh = FALSE]
    /\ UNCHANGED <<migration, cert, services>>

NextPvc ==
    \/ IsBackupEnabled \/ DbLock \/ RetryGet \/ RetryUpdate
    \/ PollCheck \/ PollWait
    \/ VolsyncInProgress \/ VolsyncComplete

SpecPvc == InitPvc /\ [][NextPvc]_vars

-----------------------------------------------------------------------------
(* The event filter of the PVC backup controller (pvcPred).                *)

Absent == "(absent)"        \* a key that the map does not hold
BackupGlobalHubValue == "globalhub"
BackupPvcWaitingForTrigger == "WaitingForTrigger"
TriggerValues == {"", "t1", "t2"}

\* A Go map read: the zero value "" for a key the map does not hold.
MapRead(m, key) == IF m[key] = Absent THEN "" ELSE m[key]

\* utils.HasLabelKey(annotations, key)
HasLabelKey(m, key) == m[key] # Absent

\* The claims an event can carry: labels and annotations, each key absent or set.
WatchedPvcs ==
    [labels : [backup : {Absent, BackupGlobalHubValue, "other"}],
     ann : [latestStatus : {Absent} \cup CopyStatuses,
            latestTrigger : {Absent} \cup TriggerValues,
            copyTrigger : {Absent} \cup TriggerValues]]

\* Lines 80-98
IfPvcNeedBackupNoWait(o) ==
    /\ HasLabel(o.labels, "backup", BackupGlobalHubValue)
    /\ HasLabel(o.ann, "latestStatus", BackupPvcWaitingForTrigger)
IfPvcNeedBackup(o) ==
    IF ~HasLabel(o.labels, "backup", BackupGlobalHubValue) THEN FALSE
    ELSE IF ~HasLabel(o.ann, "latestStatus", BackupPvcWaitingForTrigger) THEN FALSE
    ELSE IF /\ HasLabelKey(o.ann, "latestTrigger")
            /\ MapRead(o.ann, "latestTrigger") # MapRead(o.ann, "copyTrigger")
         THEN FALSE
    ELSE TRUE

\* Lines 68-78: what the predicate answers for an event of each kind.
pvcPred(kind, o) ==
    CASE kind = "Create" -> IfPvcNeedBackup(o)
      [] kind = "Update" -> IfPvcNeedBackup(o)
      [] kind = "Delete" -> FALSE

NoClaim == [labels |-> [backup |-> Absent],
            ann |-> [latestStatus |-> Absent, latestTrigger |-> Absent, copyTrigger |-> Absent]]

\* No claim exists and no event was seen.
InitWatch ==
    /\ MigrationIdle
    /\ cert = NoCert /\ pvc = NoPvc /\ http = NoHttp
    /\ watch = [started |-> TRUE, exists |-> FALSE, obj |-> NoClaim,
                ev |-> "-", queued |-> FALSE]

\* A claim is created: e.Object goes through CreateFunc.
WatchCreate(o) ==
    /\ watch.started /\ ~watch.exists
    /\ watch' = [watch EXCEPT !.exists = TRUE, !.obj = o, !.ev = "Create",
                              !.queued = pvcPred("Create", o)]
    /\ UNCHANGED <<migration, cert, pvc, http>>

\* The claim changes: e.ObjectNew goes through UpdateFunc.
WatchUpdate(o) ==
    /\ watch.started /\ watch.exists /\ o # watch.obj
    /\ watch' = [watch EXCEPT !.obj = o, !.ev = "Update",
                              !.queued = pvcPred("Update", o)]
    /\ UNCHANGED <<migration, cert, pvc, http>>

\* The claim is deleted: DeleteFunc.
WatchDelete ==
    /\ watch.started /\ watch.exists
    /\ watch' = [watch EXCEPT !.exists = FALSE, !.ev = "Delete",
                              !.queued = pvcPred("Delete", watch.obj)]
    /\ UNCHANGED <<migration, cert, pvc, http>>

NextWatch ==
    \/ \E o \in WatchedPvcs : WatchCreate(o) \/ WatchUpdate(o)
    \/ WatchDelete

SpecWatch == InitWatch /\ [][NextWatch]_vars

-----------------------------------------------------------------------------
(* The subscription report API (handleSubscriptionReport).                 *)

MaxRows == 2        \* rows of status.subscription_reports for one subscription

StatusInternalServerError == 500    \* http.StatusInternalServerError, line 56
StatusOK == 200                     \* http.StatusOK, lines 76 and 81
serverInternalErrorMsg == "internal error"

\* Decimal strings as the sequences of their characters.
DigitChars == <<"0", "1", "2", "3", "4", "5", "6", "7", "8", "9">>
IsDigit(ch) == \E d \in 1..10 : DigitChars[d] = ch
DigitValue(ch) == (CHOOSE d \in 1..10 : DigitChars[d] = ch) - 1

\* The decimal digits of the largest int (64 bits), of the magnitude of the
\* smallest, and of 2^64.
MaxIntDigits == <<"9", "2", "2", "3", "3", "7", "2", "0", "3", "6",
                  "8", "5", "4", "7", "7", "5", "8", "0", "7">>
MinIntDigits == [MaxIntDigits EXCEPT ![Len(MaxIntDigits)] = "8"]
TwoTo64Digits == <<"1", "8", "4", "4", "6", "7", "4", "4", "0", "7",
                   "3", "7", "0", "9", "5", "5", "1", "6", "1", "6">>

Signs == {"+", "-"}
IsSigned(str) == str # <<>> /\ str[1] \in Signs
Unsigned(str) == IF IsSigned(str) THEN Tail(str) ELSE str

RECURSIVE StripZeros(_)
StripZeros(ds) == IF Len(ds) > 1 /\ ds[1] = "0" THEN StripZeros(Tail(ds)) ELSE ds

\* ds <= limit for two strings of digits of the same length
RECURSIVE DigitsLeq(_, _)
DigitsLeq(ds, limit) ==
    \/ ds = <<>>
    \/ DigitValue(ds[1]) < DigitValue(limit[1])
    \/ ds[1] = limit[1] /\ DigitsLeq(Tail(ds), Tail(limit))

\* ds <= limit for two strings of digits without leading zeros
DigitsLe(ds, limit) ==
    \/ Len(ds) < Len(limit)
    \/ Len(ds) = Len(limit) /\ DigitsLeq(ds, limit)

\* A string of digits without its last one, and the value of the last one
\* (0 for the empty string).
Front(ds) == IF ds = <<>> THEN <<>> ELSE SubSeq(ds, 1, Len(ds) - 1)
LastValue(ds) == IF ds = <<>> THEN 0 ELSE DigitValue(ds[Len(ds)])

\* The digits of x + y + carry.
RECURSIVE DigitsAdd(_, _, _)
DigitsAdd(x, y, carry) ==
    IF x = <<>> /\ y = <<>>
    THEN IF carry = 0 THEN <<>> ELSE <<DigitChars[carry + 1]>>
    ELSE LET sum == LastValue(x) + LastValue(y) + carry
         IN  DigitsAdd(Front(x), Front(y), sum \div 10) \o <<DigitChars[(sum % 10) + 1]>>

\* The digits of x - y - borrow, as many as x has, for x >= y + borrow.
RECURSIVE DigitsSub(_, _, _)
DigitsSub(x, y, borrow) ==
    IF x = <<>> THEN <<>>
    ELSE LET diff == LastValue(x) - LastValue(y) - borrow
         IN  DigitsSub(Front(x), Front(y), IF diff < 0 THEN 1 ELSE 0)
                 \o <<DigitChars[(IF diff < 0 THEN diff + 10 ELSE diff) + 1]>>

\* A Go int (64 bits) is held as its sign and the decimal digits of its
\* magnitude without leading zeros: -5 is [neg |-> TRUE, mag |-> <<"5">>].
IntZero == [neg |-> FALSE, mag |-> <<"0">>]
MkInt(neg, digits) ==
    LET m == StripZeros(digits) IN [neg |-> neg /\ m # <<"0">>, mag |-> m]

\* The int that the exact number v, of magnitude 2^64 at most, becomes in
\* 64 bits: two's complement, the number modulo 2^64.
WrapInt(v) ==
    IF DigitsLe(v.mag, IF v.neg THEN MinIntDigits ELSE MaxIntDigits) THEN v
    ELSE MkInt(~v.neg, DigitsSub(TwoTo64Digits, v.mag, 0))

\* m + n of two ints (line 151), with the wrap-around of the machine.
IntAdd(m, n) ==
    WrapInt(IF m.neg = n.neg THEN MkInt(m.neg, DigitsAdd(m.mag, n.mag, 0))
            ELSE IF DigitsLe(n.mag, m.mag) THEN MkInt(m.neg, DigitsSub(m.mag, n.mag, 0))
            ELSE MkInt(n.neg, DigitsSub(n.mag, m.mag, 0)))

\* The digits of the largest uint64, the bound of strconv.ParseUint.
MaxUintDigits == [TwoTo64Digits EXCEPT ![Len(TwoTo64Digits)] = "5"]

\* strconv.ParseUint reads the characters from the left: the place of the
\* first one that is no digit, one past the end when every one is a digit.
FirstNonDigit(ds) ==
    IF \A j \in 1..Len(ds) : IsDigit(ds[j]) THEN Len(ds) + 1
    ELSE CHOOSE j \in 1..Len(ds) :
             ~IsDigit(ds[j]) /\ \A k \in 1..(j - 1) : IsDigit(ds[k])

\* The strings that strconv.Atoi reads to their end: one optional sign
\* followed by one digit at least and digits only.
AtoiWellFormed(str) ==
    Unsigned(str) # <<>> /\ FirstNonDigit(Unsigned(str)) = Len(Unsigned(str)) + 1

\* strconv.ParseUint stops with a range error: the digits read before any
\* character that is no digit write a number beyond the uint64 range.
UintOverflow(str) ==
    LET ds == Unsigned(str) IN
    ~DigitsLe(StripZeros(SubSeq(ds, 1, FirstNonDigit(ds) - 1)), MaxUintDigits)

\* strconv.Atoi without a syntax error: the string is well formed, or the
\* range error of its digits came before the character that is no digit.
AtoiSyntaxOk(str) == AtoiWellFormed(str) \/ UintOverflow(str)

\* strconv.Atoi with a range error: beyond the uint64 range as above, or
\* well formed and beyond the int range on the side of the sign.
AtoiRangeError(str) ==
    \/ UintOverflow(str)
    \/ /\ AtoiWellFormed(str)
       /\ ~DigitsLe(StripZeros(Unsigned(str)),
                    IF str[1] = "-" THEN MinIntDigits ELSE MaxIntDigits)

\* strconv.Atoi: err == nil
AtoiOk(str) == AtoiSyntaxOk(str) /\ ~AtoiRangeError(str)

\* strconv.Atoi: the number and whether it is an error.  A range error gives
\* the bound of the int range on the side of the sign, a syntax error 0.
Atoi(str) ==
    IF AtoiRangeError(str)
    THEN [n |-> IF str[1] = "-" THEN [neg |-> TRUE, mag |-> MinIntDigits]
                ELSE [neg |-> FALSE, mag |-> MaxIntDigits],
          err |-> TRUE]
    ELSE IF ~AtoiSyntaxOk(str) THEN [n |-> IntZero, err |-> TRUE]
    ELSE [n |-> MkInt(str[1] = "-", Unsigned(str)), err |-> FALSE]

\* Lines 154-160
stringToInt(numberString) ==
    IF ~Atoi(numberString).err THEN Atoi(numberString).n ELSE IntZero

\* strconv.Itoa
Itoa(n) == (IF n.neg THEN <<"-">> ELSE <<>>) \o n.mag

\* Lines 150-152
add(number1, number2) == Itoa(IntAdd(stringToInt(number1), stringToInt(number2)))

SummaryFields == {"Deployed", "InProgress", "Failed", "PropagationFailed", "Clusters"}

\* Lines 136-148
updateSubscriptionReportSummary(aggregatedSummary, reportSummary) ==
    [f \in SummaryFields |-> add(aggregatedSummary[f], reportSummary[f])]

\* Lines 123-134: the clone with its annotations emptied and the one label.
cleanSubscriptionReportObject(report) ==
    [report EXCEPT !.Annotations = {},
                   !.Labels = {<<"AnnotationHosting", <<report.Namespace, ".", report.Name>>>>}]

\* The reports that leaf hubs stored for the subscription.
LeafReports ==
    { [Name |-> "sub1", Namespace |-> "ns1",
       Annotations |-> {<<"hub", "hub1">>}, Labels |-> {},
       Summary |-> [f \in SummaryFields |-> IF f = "Clusters" THEN <<"7">> ELSE <<"1">>],
       Results |-> <<"mc1">>],
      [Name |-> "sub1", Namespace |-> "ns1",
       Annotations |-> {<<"hub", "hub2">>}, Labels |-> {},
       Summary |-> [f \in SummaryFields |->
                       CASE f = "Failed" -> <<>>
                         [] f = "Deployed" -> MaxIntDigits
                         [] f = "InProgress" -> <<"-", "2">>
                         [] f = "PropagationFailed" -> <<"+", "0", "3">>
                         [] OTHER -> <<"5">>],
       Results |-> <<"mc2", "mc3">>] }

RECURSIVE SeqsUpTo(_, _)
SeqsUpTo(S, n) ==
    IF n = 0 THEN {<<>>}
    ELSE SeqsUpTo(S, n - 1) \cup {Append(q, x) : q \in SeqsUpTo(S, n - 1), x \in S}

NilReport == [isNil |-> TRUE]   \* var subscriptionReport *SubscriptionReport (line 87)

\* A request arrives; nothing is written yet.
InitHttp ==
    /\ MigrationIdle
    /\ cert = NoCert /\ pvc = NoPvc /\ watch = NoWatch
    /\ \E t \in BOOLEAN :
           http = [started |-> TRUE, pc |-> "subscription", asTable |-> t,
                   rows |-> <<>>, subscriptionReport |-> NilReport, err |-> FALSE,
                   status |-> 0, body |-> <<>>, calls |-> <<>>]

\* gin: Context.String / Context.JSON.  The status of the first call is the
\* one sent; every call appends its body.
Render(h, code, content) ==
    [h EXCEPT !.calls = Append(@, [code |-> code, body |-> content]),
              !.status = IF h.calls = <<>> THEN code ELSE @,
              !.body = Append(@, content)]

\* Lines 89-93: the subscription is looked up by its id.
QuerySubscription ==
    /\ http.started /\ http.pc = "subscription"
    /\ \E ok \in BOOLEAN :
           http' = IF ok THEN [http EXCEPT !.pc = "reports"]
                   ELSE [http EXCEPT !.pc = "fetched", !.err = TRUE]
    /\ UNCHANGED <<migration, cert, pvc, watch>>

\* Lines 95-100: the reports of the subscription are queried.
QueryReports ==
    /\ http.started /\ http.pc = "reports"
    /\ \/ http' = [http EXCEPT !.pc = "fetched", !.err = TRUE]
       \/ \E rs \in SeqsUpTo(LeafReports, MaxRows) :
              http' = [http EXCEPT !.pc = "rows", !.rows = rs]
    /\ UNCHANGED <<migration, cert, pvc, watch>>

\* Lines 102-120: one round of the loop over the rows, or its end.
ScanRow ==
    /\ http.started /\ http.pc = "rows"
    /\ IF http.rows = <<>>
       THEN http' = [http EXCEPT !.pc = "fetched"]
       ELSE \E ok \in BOOLEAN :
           LET leaf == Head(http.rows)
               agg == http.subscriptionReport
           IN  http' =
               IF ~ok
               THEN [http EXCEPT !.pc = "fetched", !.err = TRUE,
                                 !.subscriptionReport = NilReport]
               ELSE IF agg = NilReport
               THEN [http EXCEPT !.rows = Tail(@),
                                 !.subscriptionReport = cleanSubscriptionReportObject(leaf)]
               ELSE [http EXCEPT !.rows = Tail(@),
                                 !.subscriptionReport =
                                     [agg EXCEPT !.Summary =
                                          updateSubscriptionReportSummary(@, leaf.Summary),
                                                 !.Results = @ \o leaf.Results]]
    /\ UNCHANGED <<migration, cert, pvc, watch>>

\* Lines 55-57: the error of the fetch is answered.
AnswerError ==
    /\ http.started /\ http.pc = "fetched"
    /\ http' = [(IF http.err
                 THEN Render(http, StatusInternalServerError, [text |-> serverInternalErrorMsg])
                 ELSE http)
                EXCEPT !.pc = "respond"]
    /\ UNCHANGED <<migration, cert, pvc, watch>>

\* Lines 59-82: the report is answered, as a table when one was asked for
\* (the table convertor may fail at lines 62-72).
Respond ==
    /\ http.started /\ http.pc = "respond"
    /\ \E converted \in (IF http.asTable THEN BOOLEAN ELSE {TRUE}) :
           http' = [(IF converted
                     THEN Render(http, StatusOK,
                                 [json |-> http.subscriptionReport, table |-> http.asTable])
                     ELSE http)
                    EXCEPT !.pc = "done"]
    /\ UNCHANGED <<migration, cert, pvc, watch>>

NextHttp ==
    \/ QuerySubscription \/ QueryReports \/ ScanRow
    \/ AnswerError \/ Respond

SpecHttp == InitHttp /\ [][NextHttp]_vars

-----------------------------------------------------------------------------
(* Vocabulary of the properties *)

Primary == SecretKey(ev.BootstrapSecret)
Backup == <<ev.BootstrapSecret.Namespace, "bootstrap-hub2-backup">>
ConfigName == ev.KlusterletConfig.Name
NamedClusters == {ev.ManagedClusters[i] : i \in 1..Len(ev.ManagedClusters)}

Did(r, op, kind) == {o \in log : o.run = r /\ o.op = op /\ o.kind = kind /\ o.res = "ok"}
Detaching == {"d_get", "d_delete", "d_wait"}
\* The clusters whose Delete by run r succeeded.
Deleted(r) == {o.key : o \in Did(r, "delete", "cluster")}
\* The stages of Sync in the order of its code: decode (41-46), bootstrap
\* secret (48-70), backup secret (72-100), klusterlet config (102-126),
\* annotations (128-152), detach (154-186), returned.
StageOf(pc) ==
    CASE pc = "start" -> 0
      [] pc \in {"s_get", "s_create", "s_update"} -> 1
      [] pc \in {"b_get", "b_create", "b_update"} -> 2
      [] pc \in {"k_get", "k_create"} -> 3
      [] pc \in {"a_get", "a_update"} -> 4
      [] pc \in Detaching -> 5
      [] OTHER -> 6
\* The client calls that stage n issues.
OpOfStage(o, n) ==
    CASE n = 1 -> o.kind = "secret" /\ o.key = Primary
      [] n = 2 -> o.kind = "secret" /\ o.key = Backup
      [] n = 3 -> o.kind = "config" /\ o.op \in {"get", "create"}
      [] n = 4 -> o.kind = "cluster" /\ o.op \in {"get", "update"}
      [] n = 5 -> o.kind = "cluster" /\ o.op \in {"get", "delete"}
      [] OTHER -> FALSE
\* The Get that a run issues from each position that stands before a Get.
GetPcs == {"s_get", "b_get", "k_get", "a_get", "d_get"}
GetOf(r) ==
    CASE run[r].pc = "s_get" -> Op(r, "get", "secret", SecretKey(SecretOf("s")), "-")
      [] run[r].pc = "b_get" -> Op(r, "get", "secret", SecretKey(SecretOf("b")), "-")
      [] run[r].pc = "k_get" -> Op(r, "get", "config", KlusterletConfig(ev).Name, "-")
      [] run[r].pc \in {"a_get", "d_get"} ->
             Op(r, "get", "cluster", ev.ManagedClusters[run[r].idx], "-")
\* The client calls that a step issues: the calls it adds to the history and
\* the Gets of the runs that moved on from a Get, which the history may
\* hold already from an earlier pass.
NewOps ==
    (log' \ log) \cup {GetOf(r) : r \in {q \in Runs : run[q].pc \in GetPcs /\ run'[q] # run[q]}}
\* The run got past the creation of the klusterlet config without an error.
Provisioned(r) == run[r].pc \in {"a_get", "a_update"} \cup Detaching \/ run[r].syncRes = "nil"

-----------------------------------------------------------------------------
(* Properties *)

\* C1: detachManagedClusters issues a Delete for a managed cluster only when
\* the Get of the same pass returned that cluster with an Availability
\* condition that is present and Unknown; a cluster read as True, as False or
\* without the condition is never deleted.
C1_DeleteOnlySeenUnknown ==
    /\ \A o \in log : o.op = "delete" => o.seen = "Unknown"
    /\ \A r \in Runs : run[r].pc = "d_delete" =>
           /\ run[r].mcl.present
           /\ run[r].mcl.name = ev.ManagedClusters[run[r].idx]
           /\ run[r].mcl.avail = "Unknown"

\* A pass deleted one cluster and then stopped at a cluster that is not Unknown.
C1_Witness ==
    \E r \in Runs, c \in NamedClusters :
        /\ run[r].pc = "d_wait"
        /\ Did(r, "delete", "cluster") # {}
        /\ clusters[c].present /\ clusters[c].avail \in {"True", "False", NoCond}

\* C2: no managed cluster is removed from the store at a moment when its
\* stored Availability is not Unknown, whatever the agent does between the Get
\* and the Delete.
C2_RemovedOnlyWhileUnknown ==
    \A o \in log : (o.op = "delete" /\ o.res = "ok") => o.stored = "Unknown"

\* C3: when detachManagedClusters has returned nil, every cluster named in the
\* event is absent from the store.
C3_SuccessMeansAllGone ==
    \A r \in Runs : run[r].detachRes = "nil" =>
        \A c \in NamedClusters : ~clusters[c].present

\* A run returned nil after it deleted both clusters of the event.
C3_Witness ==
    \E r \in Runs :
        /\ run[r].detachRes = "nil"
        /\ Len(ev.ManagedClusters) = 2
        /\ Cardinality(Did(r, "delete", "cluster")) = 2

\* C4: a Delete that the store answers with NotFound never ends
\* detachManagedClusters with an error.
C4_DeleteOfAbsentIsNoError ==
    \A r \in Runs : run[r].detachRes # "NotFound"

\* C5: a second Sync of the same event, run after the first one returned,
\* changes no secret, no klusterlet config and no managed cluster.
C5_SecondRunChangesNothing ==
    [][\A r \in Runs :
          (run'[r] # run[r] /\ \E q \in Runs \ {r} : run[q].pc = "done")
          => (secrets' = secrets /\ configs' = configs /\ clusters' = clusters)]_vars

\* Both runs returned nil; the first one wrote secrets, config and annotations
\* and the second one went through every stage again.
C5_Witness ==
    /\ \A r \in Runs : run[r].pc = "done" /\ run[r].syncRes = "nil"
    /\ Did(1, "update", "secret") # {} /\ Did(1, "create", "config") # {}
    /\ Cardinality(Did(1, "update", "cluster")) = 2
    /\ Cardinality(Did(2, "update", "secret")) = 2
    /\ \E o \in log : o.run = 2 /\ o.op = "get" /\ o.kind = "cluster"

\* C6: after a run that got to detachManagedClusters and was cancelled or
\* failed there, a redelivered run of the same event gets to
\* detachManagedClusters too.
C6_RedeliveryReachesDetach ==
    \A q, r \in Runs :
        (/\ run[q].pc = "done" /\ run[q].detachRes \notin {"none", "nil"}
         /\ run[r].pc = "done")
        => run[r].detachRes # "none"

\* C7: for the cluster it has fetched, the annotation loop issues an Update
\* exactly when the cluster does not carry both the migrating marker and the
\* klusterlet-config annotation of this event's config; a cluster already
\* announced for this config is not written, and a successful Update leaves the
\* cluster with the marker and this config name, its other annotations kept.
C7_UpdateIffNotAnnounced ==
    [][\A r \in Runs :
          LET name == ev.ManagedClusters[run[r].idx]
              ann == clusters[name].ann
              announced == /\ \E kv \in ann : kv[1] = ManagedClusterMigrating
                           /\ <<KlusterletConfigAnnotation, "migration-hub2">> \in ann
              others(a) == {kv \in a : kv[1] \notin {ManagedClusterMigrating,
                                                     KlusterletConfigAnnotation}}
          IN  /\ (/\ run[r].pc = "a_get" /\ run'[r] # run[r]
                  /\ clusters[name].present /\ faultsLeft' = faultsLeft)
                 => /\ (run'[r].pc = "a_update") <=> ~announced
                    /\ announced => run'[r].syncRes \in {"none", "nil"}
                    /\ clusters' = clusters
              /\ (/\ run[r].pc = "a_update" /\ run'[r].pc # "a_update"
                  /\ run'[r].syncRes \in {"none", "nil"})
                 => /\ clusters'[name].present
                    /\ <<ManagedClusterMigrating, "">> \in clusters'[name].ann
                    /\ <<KlusterletConfigAnnotation, "migration-hub2">> \in clusters'[name].ann
                    /\ Cardinality(clusters'[name].ann) = 2 + Cardinality(others(ann))
                    /\ others(clusters'[name].ann) = others(ann)]_vars

\* One run rewrote a cluster that was announced for another config, and the
\* other run went through the loop after it without writing any cluster.
C7_Witness ==
    \E r, q \in Runs, c \in NamedClusters :
        /\ r # q
        /\ configs[ConfigName] = Config(<<"bootstrap-hub1">>)
        /\ \E o \in Did(r, "update", "cluster") : o.key = c
        /\ clusters[c].present
        /\ clusters[c].ann = {OwnerAnnotation, <<ManagedClusterMigrating, "">>,
                              <<KlusterletConfigAnnotation, "migration-hub2">>}
        /\ run[q].pc \in Detaching
        /\ \A o \in log : ~(o.run = q /\ o.op = "update" /\ o.kind = "cluster")

\* C8: right after a run wrote the bootstrap secret and its backup without an
\* error, both objects exist and hold exactly the data of the event.
C8_SecretsHoldEventData ==
    \A r \in Runs : run[r].pc = "k_get" =>
        /\ secrets[Primary] = Secret(ev.BootstrapSecret.Data)
        /\ secrets[Backup] = Secret(ev.BootstrapSecret.Data)

\* The first run has just overwritten two secrets that held other data.
C8_Witness ==
    /\ run[1].pc = "k_get" /\ run[2].pc = "start"
    /\ Cardinality(Did(1, "update", "secret")) = 2
    /\ OldData # ev.BootstrapSecret.Data

\* C9 as stated: once a run is past the creation of the klusterlet config, the
\* stored config lists exactly the bootstrap secret and its backup, in that
\* order, whatever the store held before.
C9_ConfigListsPrimaryBackup ==
    \A r \in Runs : Provisioned(r) =>
        /\ configs[ConfigName].present
        /\ configs[ConfigName].KubeConfigSecrets = <<"bootstrap-hub2", "bootstrap-hub2-backup">>

\* C9 amended: the stored config lists exactly the bootstrap secret and its
\* backup, in that order, when the run found no config and created it.
C9_CreatedConfigListsPrimaryBackup ==
    \A r \in Runs : (Provisioned(r) /\ Did(r, "create", "config") # {}) =>
        /\ configs[ConfigName].present
        /\ configs[ConfigName].KubeConfigSecrets = <<"bootstrap-hub2", "bootstrap-hub2-backup">>

\* A run created the klusterlet config and went on to annotate.
C9_Witness ==
    \E r \in Runs : run[r].pc = "a_get" /\ Did(r, "create", "config") # {}

\* C10: when the Get of the klusterlet config finds an object, the run issues
\* no Create and no Update for it, returns no error, leaves the stored object
\* as it is and goes on to the annotation loop; no run ever updates a config.
C10_ExistingConfigIsKept ==
    /\ [](\A o \in log : o.kind = "config" => o.op \in {"get", "create"})
    /\ [][\A r \in Runs :
             (/\ run[r].pc = "k_get" /\ run'[r] # run[r]
              /\ configs[ConfigName].present /\ faultsLeft' = faultsLeft)
             => /\ configs' = configs
                /\ \A o \in log' \ log : o.op = "get"
                /\ run'[r].syncRes \in {"none", "nil"}
                /\ IF Len(ev.ManagedClusters) > 0
                   THEN run'[r].pc = "a_get" /\ run'[r].idx = 1
                   ELSE run'[r].pc = "done" /\ run'[r].detachRes = "nil"]_vars

\* A run found a config left by an earlier migration and went on to annotate;
\* the config still lists what it listed before.
C10_Witness ==
    \E r \in Runs :
        /\ run[r].pc = "a_get"
        /\ configs[ConfigName] = Config(<<"bootstrap-hub1">>)
        /\ \A o \in log : ~(o.kind = "config" /\ o.op # "get")

\* The passes of the scenario up to the last one: pass 1 deletes nothing, pass 2
\* deletes c1 and stops at c2, which is still there, pass 3 deletes c2.
C11_Passes ==
    /\ run[1].tick = 1 => Deleted(1) = {} /\ run[1].detachRes # "nil"
    /\ run[1].tick = 2 => Deleted(1) \subseteq {"c1"} /\ run[1].detachRes # "nil"
    /\ (run[1].tick = 2 /\ run[1].pc \in {"d_wait", "done"}) =>
           /\ Deleted(1) = {"c1"}
           /\ ~clusters["c1"].present /\ clusters["c2"].present
    /\ (run[1].tick = 3 /\ run[1].pc \in {"d_wait", "done"}) =>
           /\ Deleted(1) = {"c1", "c2"}
           /\ ~clusters["c1"].present /\ ~clusters["c2"].present

\* C11 as stated: in the scenario pass 1 deletes nothing, pass 2 deletes c1 and
\* is incomplete, pass 3 deletes c2, and detachManagedClusters returns nil in
\* pass 4, after both Gets returned NotFound.
C11_ScenarioEndsAtTick4 ==
    /\ C11_Passes
    /\ run[1].detachRes = "nil" => run[1].tick = 4

\* C11 amended: in the scenario pass 1 deletes nothing, pass 2 deletes c1 and is
\* incomplete, pass 3 deletes c2, and detachManagedClusters returns nil at the
\* end of pass 3; there is no pass 4.
C11_ScenarioEndsAtTick3 ==
    /\ C11_Passes
    /\ run[1].detachRes = "nil" => run[1].tick = 3
    /\ run[1].tick <= 3
    /\ run[1].tick = 3 => run[1].pc # "d_wait"

\* The scenario ran to its end: both clusters were deleted and the poll
\* returned nil.
C11_Witness ==
    /\ run[1].pc = "done" /\ run[1].detachRes = "nil"
    /\ Deleted(1) = {"c1", "c2"}
    /\ ~clusters["c1"].present /\ ~clusters["c2"].present

\* C12: a cluster that the Get of a pass returns with Availability Unknown is
\* deleted in that same pass, whatever it was in the passes before; a run
\* issues no second Delete for a cluster, and a cluster it deleted stays absent,
\* so that every later Get of it is answered NotFound.
C12_DeletedOnceWhenUnknown ==
    /\ [](\A r \in Runs :
            /\ run[r].pc = "d_delete" =>
                   \A o \in log : ~(o.run = r /\ o.op = "delete" /\ o.key = run[r].mcl.name)
            /\ \A c \in Deleted(r) : ~clusters[c].present)
    /\ [][\A r \in Runs :
             LET name == ev.ManagedClusters[run[r].idx]
             IN  /\ (/\ run[r].pc = "d_get" /\ run'[r] # run[r] /\ faultsLeft' = faultsLeft
                     /\ clusters[name].present /\ clusters[name].avail = "Unknown")
                    => /\ run'[r].pc = "d_delete" /\ run'[r].mcl.name = name
                       /\ run'[r].tick = run[r].tick /\ run'[r].idx = run[r].idx
                 /\ (/\ run[r].pc = "d_delete" /\ run'[r].pc # "d_delete"
                     /\ faultsLeft' = faultsLeft)
                    => /\ ~clusters'[name].present
                       /\ run'[r].tick = run[r].tick
                       /\ clusters[name].present => name \in {o.key : o \in Did(r, "delete", "cluster")}']_vars

\* A run found its only cluster not Unknown in pass 1 and deleted it in pass 2.
C12_Witness ==
    \E r \in Runs :
        /\ ev.ManagedClusters = <<"c1">>
        /\ run[r].pc = "done" /\ run[r].tick = 2 /\ run[r].detachRes = "nil"
        /\ Deleted(r) = {"c1"}

\* C13: when the Get of the poll is answered NotFound, the run issues no
\* Delete for that cluster, raises no error and goes on with the next cluster of
\* the same pass, or returns nil when it was the last one; a pass is left
\* incomplete only at a cluster that the store holds.
C13_AbsentCountsAsDetached ==
    [][\A r \in Runs :
          LET name == ev.ManagedClusters[run[r].idx]
          IN  /\ (/\ run[r].pc = "d_get" /\ run'[r] # run[r] /\ faultsLeft' = faultsLeft
                  /\ ~clusters[name].present)
                 => /\ clusters' = clusters
                    /\ \A o \in log' \ log : o.op = "get"
                    /\ run'[r].tick = run[r].tick
                    /\ run'[r].detachRes \in {"none", "nil"}
                    /\ IF run[r].idx < Len(ev.ManagedClusters)
                       THEN run'[r].pc = "d_get" /\ run'[r].idx = run[r].idx + 1
                       ELSE run'[r].pc = "done" /\ run'[r].detachRes = "nil"
                            /\ run'[r].syncRes = "nil"
              /\ (run[r].pc = "d_get" /\ run'[r].pc = "d_wait")
                 => clusters[name].present]_vars

\* A run annotated both clusters, found both gone when it polled and returned
\* nil from the first pass without a Delete.
C13_Witness ==
    \E r \in Runs :
        /\ Len(ev.ManagedClusters) = 2
        /\ run[r].pc = "done" /\ run[r].detachRes = "nil" /\ run[r].tick = 1
        /\ \A o \in log : o.run = r => o.op # "delete"
        /\ \A c \in NamedClusters : ~clusters[c].present

\* C14: a run goes through the stages in the order decode, bootstrap secret,
\* backup secret, klusterlet config, annotations, detach, and every client call
\* belongs to the stage the run is in; when a call of the stages before detach
\* fails (other than a Get answered NotFound that leads to a Create), the run
\* returns that error from Sync at once, writes nothing with that call and
\* issues no further call: it never polls and never deletes a cluster.
C14_StagesInOrderFailFast ==
    /\ [](\A r \in Runs : run[r].syncRes \notin {"none", "nil"} =>
            /\ run[r].pc = "done" /\ run[r].detachRes = "none" /\ run[r].tick = 0
            /\ \A o \in log : o.run = r => o.op # "delete")
    /\ [][\A r \in Runs :
             /\ StageOf(run'[r].pc) >= StageOf(run[r].pc)
             /\ \A o \in NewOps : o.run = r => OpOfStage(o, StageOf(run[r].pc))
             /\ run[r].pc = "done" =>
                    run'[r] = run[r] /\ \A o \in NewOps : o.run # r
             /\ (/\ StageOf(run[r].pc) \in 1..4
                 /\ \E o \in NewOps : o.run = r
                 /\ faultsLeft' < faultsLeft \/ \E o \in NewOps : o.res \notin {"ok", "-"})
                => /\ run'[r].pc = "done"
                   /\ run'[r].syncRes \in
                          IF faultsLeft' < faultsLeft THEN {"StoreError"}
                          ELSE {o.res : o \in NewOps}
                   /\ secrets' = secrets /\ configs' = configs /\ clusters' = clusters]_vars

\* A run wrote both secrets, failed to create the klusterlet config and
\* returned the error; it never touched a cluster.
C14_Witness ==
    \E r \in Runs :
        /\ run[r].pc = "done" /\ run[r].syncRes = "StoreError"
        /\ \E o \in log : o.run = r /\ o.kind = "config" /\ o.op = "create" /\ o.res = "StoreError"
        /\ secrets[Primary] = Secret(NewData) /\ secrets[Backup] = Secret(NewData)
        /\ Len(ev.ManagedClusters) = 2
        /\ \A o \in log : o.run = r => o.kind # "cluster"

\* C15: a poll that waits for its next pass ends only by cancellation: it then
\* returns the cancellation error, issues no client call and changes nothing in
\* the store, and the run makes no further step; once a poll was cancelled the
\* secrets, the klusterlet config and the annotations of the clusters that are
\* still there are the ones the earlier stages wrote.
C15_CancelEndsPollKeepsWrites ==
    /\ [](\A r \in Runs : run[r].detachRes = "Canceled" =>
            /\ run[r].pc = "done"
            /\ secrets[Primary] = Secret(ev.BootstrapSecret.Data)
            /\ secrets[Backup] = Secret(ev.BootstrapSecret.Data)
            /\ configs[ConfigName].present
            /\ \A c \in NamedClusters : clusters[c].present =>
                   /\ <<ManagedClusterMigrating, "">> \in clusters[c].ann
                   /\ <<KlusterletConfigAnnotation, ConfigName>> \in clusters[c].ann)
    /\ [][\A r \in Runs :
             /\ (run[r].pc = "d_wait" /\ run'[r].pc = "done")
                => /\ run'[r].detachRes = "Canceled"
                   /\ secrets' = secrets /\ configs' = configs /\ clusters' = clusters
                   /\ log' = log
             /\ run[r].detachRes = "Canceled"
                => run'[r] = run[r] /\ \A o \in NewOps : o.run # r]_vars

\* A poll was cancelled after its run had written both secrets and annotated
\* a cluster that is still in the store.
C15_Witness ==
    \E r \in Runs, c \in NamedClusters :
        /\ run[r].detachRes = "Canceled"
        /\ Cardinality(Did(r, "update", "secret") \cup Did(r, "create", "secret")) = 2
        /\ \E o \in Did(r, "update", "cluster") : o.key = c
        /\ clusters[c].present

\* C16: the poll returns nil in the very pass whose last cluster it found
\* absent or deleted, without another pass; it returns nil in no other way, and
\* then no named cluster is left; a pass is left incomplete only at a cluster
\* that is present with an Availability other than Unknown.
C16_SuccessAtEndOfCleanPass ==
    [][\A r \in Runs :
          LET name == ev.ManagedClusters[run[r].idx]
              last == run[r].idx = Len(ev.ManagedClusters)
              passed == \/ /\ run[r].pc = "d_get" /\ run'[r] # run[r]
                           /\ ~clusters[name].present
                        \/ /\ run[r].pc = "d_delete" /\ run'[r].pc # "d_delete"
                           /\ clusters[name].present
          IN  /\ (run[r].pc \in {"d_get", "d_delete"} /\ last /\ passed
                  /\ faultsLeft' = faultsLeft)
                 => /\ run'[r].pc = "done" /\ run'[r].detachRes = "nil"
                    /\ run'[r].tick = run[r].tick
              /\ (run[r].pc \in Detaching /\ run'[r].detachRes = "nil")
                 => /\ run[r].pc \in {"d_get", "d_delete"} /\ last /\ passed
                    /\ \A c \in NamedClusters : ~clusters'[c].present
              /\ (run[r].pc \in {"d_get", "d_delete"} /\ run'[r].pc = "d_wait")
                 => /\ run[r].pc = "d_get"
                    /\ clusters[name].present /\ clusters[name].avail # "Unknown"]_vars

\* A poll returned nil at the end of its second pass, in which it deleted the
\* last cluster of the list.
C16_Witness ==
    \E r \in Runs :
        /\ Len(ev.ManagedClusters) = 2
        /\ run[r].pc = "done" /\ run[r].detachRes = "nil" /\ run[r].tick = 2
        /\ "c2" \in Deleted(r)

\* C17: when the Get of a pass returns a cluster that is present with an
\* Availability other than Unknown, the pass ends there without a write: the
\* run's next call is the Get of the first cluster in the next pass; hence
\* while a pass is at some cluster, every cluster before it in the list is
\* absent from the store.
C17_PassStopsAtFirstNotReady ==
    /\ [](\A r \in Runs : run[r].pc \in {"d_get", "d_delete"} =>
            \A j \in 1..(run[r].idx - 1) : ~clusters[ev.ManagedClusters[j]].present)
    /\ [][\A r \in Runs :
             LET name == ev.ManagedClusters[run[r].idx]
             IN  /\ (/\ run[r].pc = "d_get" /\ run'[r] # run[r] /\ faultsLeft' = faultsLeft
                     /\ clusters[name].present /\ clusters[name].avail # "Unknown")
                    => /\ run'[r].pc = "d_wait" /\ run'[r].tick = run[r].tick
                       /\ clusters' = clusters
                       /\ \A o \in NewOps : o.op = "get" /\ o.key = name
                 /\ (run[r].pc = "d_wait" /\ run'[r] # run[r])
                    => /\ log' = log /\ clusters' = clusters
                       /\ \/ run'[r].pc = "done"
                          \/ /\ run'[r].pc = "d_get" /\ run'[r].idx = 1
                             /\ run'[r].tick = run[r].tick + 1]_vars

\* A second pass starts again at c1, which was not ready in the first pass,
\* while c2, behind it in the list, is Unknown and has not been deleted.
C17_Witness ==
    \E r \in Runs :
        /\ ev.ManagedClusters = <<"c1", "c2">>
        /\ run[r].pc = "d_get" /\ run[r].idx = 1 /\ run[r].tick = 2
        /\ clusters["c1"].present /\ clusters["c1"].avail = "True"
        /\ clusters["c2"].present /\ clusters["c2"].avail = "Unknown"
        /\ \A o \in log : o.op # "delete"

\* C18: when the Get (NotFound included) or the Update of the annotation loop
\* fails at the k-th cluster, Sync returns that error at once and the call
\* changes no cluster; the present clusters before the k-th carry the marker
\* and the config name and no cluster ever loses them; the run has written
\* neither the k-th nor a later cluster, and it has deleted none.
C18_AnnotationFailureStopsSync ==
    /\ [](\A r \in Runs : run[r].pc \in {"a_get", "a_update"} =>
            /\ \A j \in 1..(run[r].idx - 1) :
                   clusters[ev.ManagedClusters[j]].present =>
                       AlreadyMigrating(clusters[ev.ManagedClusters[j]].ann, "migration-hub2")
            /\ \A j \in run[r].idx..Len(ev.ManagedClusters) :
                   \A o \in Did(r, "update", "cluster") : o.key # ev.ManagedClusters[j])
    /\ [][/\ \A c \in ClusterNames :
                (/\ clusters[c].present /\ clusters'[c].present
                 /\ <<ManagedClusterMigrating, "">> \in clusters[c].ann
                 /\ <<KlusterletConfigAnnotation, "migration-hub2">> \in clusters[c].ann)
                => clusters'[c].ann = clusters[c].ann
          /\ \A r \in Runs :
                LET name == ev.ManagedClusters[run[r].idx]
                    failed == \/ run[r].pc = "a_get" /\ ~clusters[name].present
                              \/ faultsLeft' < faultsLeft
                              \/ \E o \in NewOps : o.res \notin {"ok", "-"}
                IN  (/\ run[r].pc \in {"a_get", "a_update"}
                     /\ \E o \in NewOps : o.run = r
                     /\ failed)
                    => /\ run'[r].pc = "done" /\ run'[r].detachRes = "none"
                       /\ run'[r].syncRes \in
                              IF faultsLeft' < faultsLeft THEN {"StoreError"}
                              ELSE IF run[r].pc = "a_get" THEN {"NotFound"}
                              ELSE {o.res : o \in NewOps}
                       /\ run'[r].syncRes \notin {"none", "nil"}
                       /\ clusters' = clusters
                       /\ \A o \in log' : o.run = r =>
                              /\ o.op # "delete"
                              /\ \A j \in run[r].idx..Len(ev.ManagedClusters) :
                                     ~(o.op = "update" /\ o.res = "ok" /\ o.key = ev.ManagedClusters[j])]_vars

\* A run annotated c1, failed at c2 and returned the error; c1 keeps its new
\* annotations and nobody has written c2.
C18_Witness ==
    \E r \in Runs :
        /\ ev.ManagedClusters = <<"c1", "c2">>
        /\ run[r].pc = "done" /\ run[r].syncRes \in {"StoreError", "NotFound", "Conflict"}
        /\ \E o \in Did(r, "update", "cluster") : o.key = "c1"
        /\ clusters["c1"].present
        /\ clusters["c1"].ann = {OwnerAnnotation, <<ManagedClusterMigrating, "">>,
                                 <<KlusterletConfigAnnotation, "migration-hub2">>}
        /\ \E o \in log : o.run = r /\ o.kind = "cluster" /\ o.key = "c2"
        /\ \A o \in log : ~(o.op \in {"update", "delete"} /\ o.res = "ok" /\ o.key = "c2")

\* C19: in the poll a Get that fails with an error other than NotFound, and a
\* Delete that fails in any way, end the poll in the same step with that
\* error and change no cluster; after that the run issues no call, and a
\* cluster that is gone from the store never comes back.
C19_PollErrorEndsWait ==
    [][/\ \A c \in ClusterNames : ~clusters[c].present => ~clusters'[c].present
       /\ \A r \in Runs :
             LET name == ev.ManagedClusters[run[r].idx]
             IN  /\ (/\ run[r].pc = "d_get" /\ run'[r] # run[r]
                     /\ faultsLeft' < faultsLeft)
                    => /\ run'[r].pc = "done" /\ run'[r].detachRes = "StoreError"
                       /\ run'[r].tick = run[r].tick
                       /\ clusters' = clusters
                 /\ (/\ run[r].pc = "d_delete" /\ run'[r].pc # "d_delete"
                     /\ faultsLeft' < faultsLeft \/ ~clusters[name].present)
                    => /\ run'[r].pc = "done"
                       /\ run'[r].detachRes =
                              IF faultsLeft' < faultsLeft THEN "StoreError" ELSE "NotFound"
                       /\ run'[r].tick = run[r].tick
                       /\ clusters' = clusters
                 /\ run[r].detachRes \in {"StoreError", "NotFound"}
                    => run'[r] = run[r] /\ \A o \in NewOps : o.run # r]_vars

\* A poll deleted c1, then a call on c2 failed and the poll returned the
\* error: c1 is gone, c2 is still there.
C19_Witness ==
    \E r \in Runs :
        /\ ev.ManagedClusters = <<"c1", "c2">>
        /\ run[r].pc = "done" /\ run[r].detachRes = "StoreError"
        /\ Deleted(r) = {"c1"}
        /\ ~clusters["c1"].present /\ clusters["c2"].present

\* C20: a run whose stages before detach all succeeded called
\* detachManagedClusters; Sync returns nil to it whatever that call returned
\* (nil, an error of a Get or a Delete, cancellation), and Sync has not
\* returned while the poll is still running.
C20_SyncNilWhateverDetachReturns ==
    \A r \in Runs :
        /\ run[r].tick >= 1 <=> (run[r].pc \in Detaching \/ run[r].detachRes # "none")
        /\ run[r].pc \in Detaching => run[r].syncRes = "none" /\ run[r].detachRes = "none"
        /\ run[r].detachRes # "none" => run[r].pc = "done" /\ run[r].syncRes = "nil"
        /\ run[r].syncRes = "nil" => run[r].pc = "done" /\ run[r].detachRes # "none"
        /\ run[r].detachRes \in {"none", "nil", "StoreError", "NotFound", "Canceled"}

\* Two polls ended, one by cancellation and one with the error of a client
\* call; both Syncs returned nil.
C20_Witness ==
    \E r, q \in Runs :
        /\ run[r].detachRes = "Canceled" /\ run[r].syncRes = "nil"
        /\ run[q].detachRes \in {"StoreError", "NotFound"} /\ run[q].syncRes = "nil"

\* C21: when two overlapping runs annotate the same cluster for the same
\* klusterlet config, every Update that a run issues for a cluster that is in
\* the store succeeds, however the Gets and Updates of the two runs interleave,
\* so that no run returns a Conflict from the annotation loop.
C21_RacingAnnotatorsBothPass ==
    /\ \A o \in log : (o.op = "update" /\ o.kind = "cluster") => o.res \in {"ok", "NotFound"}
    /\ \A r \in Runs : run[r].syncRes # "Conflict"

\* C26: two overlapping runs of the same event both get through the two
\* secrets and the klusterlet config without an error, however their Gets,
\* Creates and Updates interleave: every call on a secret or on the config
\* succeeds and no run returns from these stages.
C26_RacingProvisionersBothPass ==
    /\ \A o \in log : o.kind \in {"secret", "config"} => o.res \in {"ok", "-"}
    /\ \A r \in Runs : run[r].syncRes # "AlreadyExists"
    /\ \A r \in Runs :
           (run[r].pc = "done" /\ Unmarshal(payload).err = "nil")
           => \/ run[r].syncRes = "nil"
              \/ \E o \in log : o.run = r /\ o.kind = "cluster"

\* C22: without cancellation and store failures, and with every cluster
\* turning Unknown and staying so, a poll that has started eventually returns
\* nil with every named cluster absent; and the poll has not returned as long
\* as a named cluster is in the store.
C22_PollEndsOnceAllUnknown ==
    /\ [](run[1].detachRes # "none" =>
            /\ run[1].detachRes = "nil"
            /\ \A c \in NamedClusters : ~clusters[c].present)
    /\ (run[1].pc \in Detaching) ~>
            (/\ run[1].pc = "done" /\ run[1].detachRes = "nil"
             /\ \A c \in NamedClusters : ~clusters[c].present)

\* The poll needed more than one pass, deleted both clusters and returned nil.
C22_Witness ==
    /\ Len(ev.ManagedClusters) = 2
    /\ run[1].pc = "done" /\ run[1].detachRes = "nil" /\ run[1].tick >= 2
    /\ Deleted(1) = {"c1", "c2"}

\* C23: with a payload that is no event, no run ever issues a client call: a
\* run is either not started or has returned the error of the decoder.
C23_UndecodableTouchesNothing ==
    payload \notin Events =>
        /\ log = {}
        /\ \A r \in Runs :
               /\ run[r].pc \in {"start", "done"}
               /\ run[r].pc = "done" => run[r].syncRes = "DecodeError"
               /\ run[r].pc = "start" => run[r].syncRes = "none"
               /\ run[r].detachRes = "none" /\ run[r].tick = 0

\* Both deliveries of a malformed payload have returned the error.
C23_Witness ==
    /\ payload = Malformed
    /\ \A r \in Runs : run[r].pc = "done" /\ run[r].syncRes = "DecodeError"
    /\ \E c \in ClusterNames : clusters[c].present

\* C24: whenever a cluster in the store carries the klusterlet-config
\* annotation of this event, and whenever a run is in its annotation loop or
\* has updated a cluster, the store holds the klusterlet config of the event,
\* the bootstrap secret and its backup.
C24_ConfigAndSecretsBeforeAnnotation ==
    LET published == /\ configs[ConfigName].present
                     /\ secrets[Primary].present /\ secrets[Backup].present
    IN  /\ \A c \in ClusterNames :
               (/\ clusters[c].present
                /\ <<KlusterletConfigAnnotation, "migration-hub2">> \in clusters[c].ann)
               => published
        /\ \A r \in Runs :
               (\/ run[r].pc \in {"a_get", "a_update"}
                \/ \E o \in log : o.run = r /\ o.op = "update" /\ o.kind = "cluster")
               => published

\* A run created both secrets and the klusterlet config and then annotated a
\* cluster, which now points to that config.
C24_Witness ==
    \E r \in Runs, c \in NamedClusters :
        /\ Cardinality(Did(r, "create", "secret")) = 2
        /\ Did(r, "create", "config") # {}
        /\ \E o \in Did(r, "update", "cluster") : o.key = c
        /\ clusters[c].present
        /\ <<KlusterletConfigAnnotation, "migration-hub2">> \in clusters[c].ann

\* C25: every client call on a managed cluster names a cluster of the event; a
\* cluster that the event does not name is neither removed nor annotated; when
\* the annotations of a cluster change, the cluster is named, the marker and
\* the klusterlet-config annotation of the event are set and every other
\* annotation keeps its value; a step of the poll changes no secret, no
\* klusterlet config and no annotation and removes only named clusters.
C25_RunWritesOnlyNamedClusters ==
    /\ [](\A o \in log : o.kind = "cluster" => o.key \in NamedClusters)
    /\ [][LET others(a) == {kv \in a : kv[1] \notin {ManagedClusterMigrating,
                                                     KlusterletConfigAnnotation}}
              removed == {c \in ClusterNames : clusters[c].present /\ ~clusters'[c].present}
              written == {c \in ClusterNames : /\ clusters[c].present /\ clusters'[c].present
                                               /\ clusters'[c].ann # clusters[c].ann}
          IN  /\ removed \subseteq NamedClusters
              /\ written \subseteq NamedClusters
              /\ \A c \in written :
                     /\ others(clusters'[c].ann) = others(clusters[c].ann)
                     /\ clusters'[c].ann = others(clusters[c].ann) \cup
                            {<<ManagedClusterMigrating, "">>,
                             <<KlusterletConfigAnnotation, "migration-hub2">>}
                     /\ clusters'[c].avail = clusters[c].avail
              /\ \A r \in Runs :
                     (/\ run[r].pc \in Detaching
                      /\ <<run'[r].pc, run'[r].idx, run'[r].tick>> #
                             <<run[r].pc, run[r].idx, run[r].tick>>)
                     => /\ secrets' = secrets /\ configs' = configs
                        /\ written = {}]_vars

\* A run of an event that names c1 only annotated and deleted c1; c2 is still
\* in the store with the annotations it had.
C25_Witness ==
    \E r \in Runs :
        /\ ev.ManagedClusters = <<"c1">>
        /\ \E o \in Did(r, "update", "cluster") : o.key = "c1"
        /\ Deleted(r) = {"c1"}
        /\ clusters["c2"].present /\ clusters["c2"].ann = FreshAnnotations

\* C27: the handler of a deleted CA secret leaves its
\* loop after a bounded number of attempts: it issues at most one Get of the
\* secret and MaxRetries more, whether the Gets fail or the Updates do.
C27_OnDeleteBounded ==
    cert.started => cert.h.gets <= MaxRetries + 1

\* C28: however often and from however many goroutines Start is called, at
\* most one informer is created and run.
C28_AtMostOneInformer ==
    cert.started => cert.informers <= 1

\* C29: Reconcile updates the PVC only while the database lock is held; once
\* it has returned the lock is not held, whichever return it took; and when
\* backup is disabled or the lock was not acquired it has not updated the
\* PVC.
C29_TriggerWrittenUnderLock ==
    pvc.started =>
        /\ \A w \in pvc.writes : w.held
        /\ pvc.rc.pc = "done" => ~pvc.held
        /\ (pvc.rc.pc = "done" /\ pvc.rc.lock # "ok") =>
               pvc.writes = {} /\ pvc.ann.copyTrigger = pvc.ann0.copyTrigger /\ ~pvc.held

\* A return after the lock was acquired and the trigger written.
C29_Witness ==
    /\ pvc.started /\ pvc.rc.pc = "done" /\ pvc.rc.res = "Timeout"
    /\ pvc.rc.lock = "ok" /\ pvc.writes # {} /\ ~pvc.held

\* C30: once the trigger T is written, Reconcile returns nil only after a
\* poll that read latest-copy-status Completed with latest-copy-trigger T,
\* returns nothing but nil or the timeout error (a failed Get ends nothing),
\* and returns the timeout error only when the two minutes have passed.
C30_SuccessNeedsCompletionOfT ==
    (pvc.started /\ pvc.writes # {}) =>
        /\ pvc.rc.elapsed <= PollTimeout
        /\ pvc.rc.pc = "done" =>
               /\ pvc.rc.res \in {"nil", "Timeout"}
               /\ pvc.rc.res = "nil" =>
                      /\ pvc.rc.obs # NoValue
                      /\ pvc.rc.obs.latestStatus = BackupPvcCompletedTrigger
                      /\ pvc.rc.obs.latestTrigger = pvc.rc.T
               /\ pvc.rc.res = "Timeout" => pvc.rc.elapsed >= PollTimeout

\* Success after a poll whose Get failed, over an earlier completed backup.
C30_Witness ==
    /\ pvc.started /\ pvc.rc.pc = "done" /\ pvc.rc.res = "nil"
    /\ pvc.writes # {} /\ pvc.rc.waitGetFailed
    /\ pvc.ann0.latestStatus = BackupPvcCompletedTrigger
    /\ pvc.rc.elapsed > 0

\* C31: a create or update event of a claim asks for a reconcile exactly when
\* the claim carries the global-hub backup label, its latest-copy-status is
\* waiting-for-trigger and its latest-copy-trigger is absent or reads equal
\* to its copy-trigger; a delete event never asks for one.
C31_EventTriggersIffBackupNeeded ==
    watch.started =>
        /\ watch.ev \in {"Create", "Update"} =>
               (watch.queued <=>
                    /\ watch.obj.labels.backup = BackupGlobalHubValue
                    /\ watch.obj.ann.latestStatus = BackupPvcWaitingForTrigger
                    /\ \/ watch.obj.ann.latestTrigger = Absent
                       \/ MapRead(watch.obj.ann, "latestTrigger")
                              = MapRead(watch.obj.ann, "copyTrigger"))
        /\ watch.ev = "Delete" => ~watch.queued

\* An update of a claim whose last copy answered its present trigger.
C31_Witness ==
    /\ watch.started /\ watch.ev = "Update" /\ watch.queued
    /\ watch.obj.ann.latestTrigger = "t1"

\* C32: a request gets one response at most, and when the fetch of the
\* aggregated report failed the 500 internal-error response is the only
\* thing written: no 200 response and no report body follow it.
C32_OneResponsePerRequest ==
    http.started =>
        /\ Len(http.calls) <= 1
        /\ (http.pc = "done" /\ http.err) =>
               /\ http.calls = <<[code |-> StatusInternalServerError,
                                  body |-> [text |-> serverInternalErrorMsg]]>>
               /\ http.body = <<[text |-> serverInternalErrorMsg]>>

====
